---- MODULE Spec2Model ----
(***************************************************************************)
(* A model of configupdater: the line-oriented parser (parser.py), the     *)
(* block tree (block.py, container.py, option.py, section.py, document.py) *)
(* and the builder (builder.py).                                           *)
(*                                                                         *)
(* Text is modelled character by character: a Python str is a sequence of  *)
(* one-character strings, a physical line is such a sequence ending in     *)
(* "\n".  Python objects live in `heap`, a sequence of records; an         *)
(* object's identity is its index in the heap, 0 stands for None where a   *)
(* reference is expected and NoneV where a str is expected.                *)
(***************************************************************************)
EXTENDS Integers, Sequences, FiniteSets, TLC

VARIABLES
    heap,     \* the objects: Documents, Sections, Options, Comments, Spaces
    cfg,      \* the syntax options given to Parser.__init__
    text,     \* the physical lines the parser has taken from its input so far
    rd,       \* the local variables of Parser._read
    pc,       \* where the program is: "read", "done", "raised", "edit", ...
    last,     \* the last public call: its name, arguments and outcome
    snap      \* what the caller observed before the last public call

vars == <<heap, cfg, text, rd, pc, last, snap>>

----------------------------------------------------------------------------
(* Bounds of the model *)

MaxLines == 4      \* physical lines of one parsed input
MaxOps == 2        \* public edit calls in one run
MaxHeap == 14      \* objects alive in one run

(* sys.maxsize, used by _read as "no comment" and "no continuation possible" *)
maxsize == 2147483647

----------------------------------------------------------------------------
(* str *)

NoneV == <<"<None>">>

IsSpace(c) == c \in {" ", "\t", "\n"}

Min(S) == CHOOSE x \in S : \A y \in S : x <= y
Max(S) == CHOOSE x \in S : \A y \in S : y <= x

\* 1-based index of the first / last character that is not white space
FirstNonSpace(s) == Min({i \in 1..Len(s) : ~IsSpace(s[i])} \cup {Len(s) + 1})
LastNonSpace(s) == Max({i \in 1..Len(s) : ~IsSpace(s[i])} \cup {0})

LStrip(s) == SubSeq(s, FirstNonSpace(s), Len(s))
RStrip(s) == SubSeq(s, 1, LastNonSpace(s))
Strip(s) == SubSeq(s, FirstNonSpace(s), LastNonSpace(s))

\* str.lstrip(" ")
LStripBlanks(s) ==
    SubSeq(s, Min({i \in 1..Len(s) : s[i] # " "} \cup {Len(s) + 1}), Len(s))

StartsWith(s, p) == Len(s) >= Len(p) /\ SubSeq(s, 1, Len(p)) = p
EndsWith(s, p) == Len(s) >= Len(p) /\ SubSeq(s, Len(s) - Len(p) + 1, Len(s)) = p

\* str.find(p, start): 0-based, -1 when absent
Find(s, p, start) ==
    LET at == {i \in start..(Len(s) - Len(p)) : SubSeq(s, i + 1, i + Len(p)) = p}
    IN  IF at = {} THEN -1 ELSE Min(at)

Contains(s, p) == Find(s, p, 0) # -1

\* "".join(parts)
RECURSIVE Concat(_)
Concat(parts) ==
    IF parts = <<>> THEN <<>> ELSE Head(parts) \o Concat(Tail(parts))

\* sep.join(parts)
RECURSIVE Join(_, _)
Join(parts, sep) ==
    IF parts = <<>> THEN <<>>
    ELSE IF Len(parts) = 1 THEN parts[1]
    ELSE parts[1] \o sep \o Join(Tail(parts), sep)

\* str.lower, for the letters the model uses
LowerChar(c) ==
    CASE c = "K" -> "k"
      [] c = "J" -> "j"
      [] OTHER -> c

Lower(s) == [i \in 1..Len(s) |-> LowerChar(s[i])]

NL == <<"\n">>

----------------------------------------------------------------------------
(* Objects *)

Blank(kind, container) ==
    [ kind |-> kind,              \* the class
      container |-> container,    \* Block._container (0: None)
      lines |-> <<>>,             \* Block._lines
      updated |-> FALSE,          \* Block._updated
      structure |-> <<>>,         \* Container._structure
      name |-> <<>>,              \* Section._name, Option._key
      raw_comment |-> <<>>,       \* Section._raw_comment
      values |-> <<>>,            \* Option._values
      value_is_none |-> TRUE,     \* Option._value_is_none
      value |-> NoneV,            \* Option._value
      joined |-> FALSE,           \* Option._multiline_value_joined
      delimiter |-> <<"=">>,      \* Option._delimiter
      space_around |-> TRUE,      \* Option._space_around_delimiters
      syntax |-> <<>> ]           \* Document.syntax_options: <<>> or <<the options>>

\* the outcome of a call: the heap it leaves and the exception it raises
Ok(h) == [h |-> h, exc |-> ""]
Fail(h, e) == [h |-> h, exc |-> e]

\* the outcome of a call that returns something: Ok / Fail with the result
Ret(h, ret) == [h |-> h, exc |-> "", ret |-> ret]
NoRet(r) == [h |-> r.h, exc |-> r.exc, ret |-> <<>>]

IsKind(h, b, kind) == b # 0 /\ h[b].kind = kind

\* Container.last_block / first_block
LastBlock(h, c) ==
    IF h[c].structure = <<>> THEN 0 ELSE h[c].structure[Len(h[c].structure)]
FirstBlock(h, c) ==
    IF h[c].structure = <<>> THEN 0 ELSE h[c].structure[1]

\* Block.updated
Updated(h, b) == h[b].updated \/ h[b].lines = <<>>

\* Option._document
DocumentOf(h, o) ==
    IF h[o].container = 0 THEN 0 ELSE h[h[o].container].container

\* the syntax options an Option or Section sees through its back-pointers
SyntaxOf(h, d) ==
    IF d = 0 \/ h[d].kind # "Document" THEN <<>> ELSE h[d].syntax

\* what an f-string writes for a string or None
Format(x) == IF x = NoneV THEN <<"N", "o", "n", "e">> ELSE x

\* Option._get_delim
GetDelim(h, o, determine_suffix) ==
    LET opts == SyntaxOf(h, DocumentOf(h, o))
        space == h[o].space_around \/ (opts # <<>> /\ opts[1].space_around_delimiters)
        suffix == IF determine_suffix /\ StartsWith(h[o].value, NL)
                  THEN <<>> ELSE <<" ">>
    IN  IF space THEN <<" ">> \o Format(h[o].delimiter) \o suffix
        ELSE h[o].delimiter

\* Option.__str__ that writes the bare key for every absent value
OptionStrBareKey(h, o) ==
    IF ~Updated(h, o) THEN Concat(h[o].lines)
    ELSE IF h[o].value = NoneV THEN h[o].name \o NL
    ELSE h[o].name \o Format(GetDelim(h, o, TRUE)) \o h[o].value \o NL

\* Option.__str__ calls NoneValueDisallowed.warn
OptionWarns(h, o) ==
    /\ Updated(h, o)
    /\ h[o].value = NoneV
    /\ DocumentOf(h, o) # 0
    /\ ~(SyntaxOf(h, DocumentOf(h, o)) # <<>>
         /\ SyntaxOf(h, DocumentOf(h, o))[1].allow_no_value)

\* Option.__str__
OptionStr(h, o) ==
    IF ~Updated(h, o) THEN Concat(h[o].lines)
    ELSE IF h[o].value = NoneV
         THEN LET d == DocumentOf(h, o)
                  opts == SyntaxOf(h, d)
              IN  IF d = 0 \/ (opts # <<>> /\ opts[1].allow_no_value)
                  THEN h[o].name \o NL
                  ELSE <<>>
         ELSE h[o].name \o Format(GetDelim(h, o, TRUE)) \o h[o].value \o NL

\* Section.__str__: the text before the text of the children
SectionHead(h, s) ==
    IF ~Updated(h, s)
    THEN Concat(h[s].lines)
         \o (IF h[s].structure # <<>> /\ ~EndsWith(Concat(h[s].lines), NL)
             THEN NL ELSE <<>>)
    ELSE <<"[">> \o h[s].name \o <<"]">> \o h[s].raw_comment \o NL

\* Block.__str__, Option.__str__, Section.__str__, Document.__str__
RECURSIVE Str(_, _)
RECURSIVE StrAll(_, _)
StrAll(h, ids) ==
    IF ids = <<>> THEN <<>> ELSE Str(h, Head(ids)) \o StrAll(h, Tail(ids))
Str(h, b) ==
    CASE h[b].kind = "Document" -> StrAll(h, h[b].structure)
      [] h[b].kind = "Section" -> SectionHead(h, b) \o StrAll(h, h[b].structure)
      [] h[b].kind = "Option" -> OptionStr(h, b)
      [] OTHER -> Concat(h[b].lines)

\* Block.__eq__, Section.__eq__, Document.__eq__ (list equality compares the
\* elements by identity first, then by __eq__)
RECURSIVE Eq(_, _, _)
RECURSIVE EqAll(_, _, _)
EqAll(h, xs, ys) ==
    /\ Len(xs) = Len(ys)
    /\ \A i \in 1..Len(xs) : xs[i] = ys[i] \/ Eq(h, xs[i], ys[i])
Eq(h, a, b) ==
    IF a = 0 \/ b = 0 THEN a = b
    ELSE IF h[a].kind # h[b].kind THEN FALSE
    ELSE CASE h[a].kind = "Document" -> EqAll(h, h[a].structure, h[b].structure)
           [] h[a].kind = "Section" ->
                 h[a].name = h[b].name /\ EqAll(h, h[a].structure, h[b].structure)
           [] OTHER -> Str(h, a) = Str(h, b)

\* list.index(x): the first element that is x or equals x; 0 when there is none
\* (positions are 1-based here, Python's index is this minus one)
IndexOf(h, xs, x) ==
    LET at == {i \in 1..Len(xs) : xs[i] = x \/ Eq(h, xs[i], x)}
    IN  IF at = {} THEN 0 ELSE Min(at)

\* Block.container_idx, as a 1-based position (0: the block is not attached)
ContainerIdx(h, b) ==
    IF h[b].container = 0 THEN 0
    ELSE IndexOf(h, h[h[b].container].structure, b)

\* Block.next_block / previous_block (0: None); the block is attached
NextBlock(h, b) ==
    LET st == h[h[b].container].structure
        idx == ContainerIdx(h, b) + 1
    IN  IF idx <= Len(st) THEN st[idx] ELSE 0
PreviousBlock(h, b) ==
    LET st == h[h[b].container].structure
        idx == ContainerIdx(h, b) - 1
    IN  IF idx >= 1 THEN st[idx] ELSE 0

\* del list[idx], list.insert(idx, x) with 1-based positions
DelAt(xs, i) == SubSeq(xs, 1, i - 1) \o SubSeq(xs, i + 1, Len(xs))
InsAt(xs, i, x) == SubSeq(xs, 1, i - 1) \o <<x>> \o SubSeq(xs, i, Len(xs))

\* Block.detach on an attached block: Container._remove_block(container_idx),
\* then the back-pointer is cleared
DetachBlock(h, b) ==
    LET c == h[b].container
    IN  [h EXCEPT ![c].structure = DelAt(@, ContainerIdx(h, b)),
                  ![b].container = 0]

\* Block.add_line
BlockAddLine(h, b, line) == [h EXCEPT ![b].lines = Append(@, line)]

\* Option.add_value
OptionAddValue(h, o, v) ==
    [h EXCEPT ![o].value_is_none = (v = NoneV), ![o].values = Append(@, v)]

\* add_line as dispatched on the class: Option.add_line adds the stripped
\* line as a value too
AddLine(h, b, line) ==
    IF h[b].kind = "Option"
    THEN OptionAddValue(BlockAddLine(h, b, line), b, Strip(line))
    ELSE BlockAddLine(h, b, line)

RECURSIVE AddLines(_, _, _)
AddLines(h, b, ls) ==
    IF ls = <<>> THEN h ELSE AddLines(AddLine(h, b, Head(ls)), b, Tail(ls))

----------------------------------------------------------------------------
(* container.py *)

\* Bodies of Block.is_attached and Block._attach, which Container calls:
\* is_attached tells whether the back-pointer is set, _attach sets it.
IsAttached(h, b) == h[b].container # 0
AttachUnchecked(h, b, c) == [h EXCEPT ![b].container = c]

\* Container._adopt_or_copy: <<heap, the block to put into the list>>.
\* copy.copy makes a new object with the same attribute values.
AdoptOrCopy(h, c, b) ==
    IF Eq(h, h[b].container, c) THEN <<h, b>>
    ELSE IF IsAttached(h, b)
         THEN LET id == Len(h) + 1
              IN  <<AttachUnchecked(Append(h, h[b]), id, c), id>>
         ELSE <<AttachUnchecked(h, b, c), b>>

\* Container.append, Container.insert (idx is Python's, 0-based, not
\* negative), given r = <<heap, block>> of _adopt_or_copy
AppendAdopted(r, c) == [r[1] EXCEPT ![c].structure = Append(@, r[2])]
InsertAdopted(r, c, idx) == [r[1] EXCEPT ![c].structure = InsAt(@, idx + 1, r[2])]

ContainerAppend(h, c, b) == AppendAdopted(AdoptOrCopy(h, c, b), c)
ContainerInsert(h, c, idx, b) ==
    InsertAdopted(AdoptOrCopy(h, c, b), c,
                  IF idx > Len(h[c].structure) THEN Len(h[c].structure) ELSE idx)

----------------------------------------------------------------------------
(* list *)

\* list.insert(idx, x), idx as Python counts it (0-based, not negative)
ListInsert(xs, idx, x) ==
    InsAt(xs, (IF idx > Len(xs) THEN Len(xs) ELSE idx) + 1, x)

----------------------------------------------------------------------------
(* block.py: the public operations of a block *)

\* Option._join_multiline_value: "\n".join raises TypeError on a None item
OptionJoin(h, o) ==
    IF h[o].joined \/ h[o].value_is_none THEN Ok(h)
    ELSE IF \E i \in 1..Len(h[o].values) : h[o].values[i] = NoneV
    THEN Fail(h, "TypeError")
    ELSE Ok([h EXCEPT ![o].value = RStrip(Join(h[o].values, NL)),
                      ![o].joined = TRUE])

\* repr(block): Option.__repr__ reads self.value, and the repr of a Section
\* is made of the repr of its blocks; r is the outcome so far
RECURSIVE ReprAll(_, _)
ReprAll(r, ids) ==
    IF r.exc # "" \/ ids = <<>> THEN r
    ELSE IF r.h[Head(ids)].kind = "Option"
    THEN ReprAll(OptionJoin(r.h, Head(ids)), Tail(ids))
    ELSE ReprAll(r, Tail(ids))
Repr(h, b) ==
    CASE h[b].kind = "Option" -> OptionJoin(h, b)
      [] h[b].kind = "Section" -> ReprAll(Ok(h), h[b].structure)
      [] OTHER -> Ok(h)

\* list.index(b) when no element is or equals b: the ValueError names
\* repr(b), whose outcome is r
NotInList(r) == IF r.exc # "" THEN r ELSE Fail(r.h, "ValueError")

\* Block.detach
BlockDetach(h, b) ==
    IF h[b].container = 0 THEN Fail(h, "NotAttachedError")
    ELSE IF ContainerIdx(h, b) = 0 THEN NotInList(Repr(h, b))
    ELSE Ok(DetachBlock(h, b))

\* Block.attach
BlockAttach(h, b, c) ==
    IF h[b].container # 0 /\ h[b].container # c
    THEN Fail(h, "AlreadyAttachedError")
    ELSE Ok([h EXCEPT ![b].container = c])

\* the properties of a block raise with outcome r: no builder is made
NoBuilder(r) == [container |-> 0, idx |-> 0, exc |-> r.exc, h |-> r.h]

\* Block.add_before / Block.add_after: [container, idx, exc, h] of the builder
\* (idx as Python counts it); container_idx is the block's 1-based position
BuilderFrom(h, b, container_idx, after) ==
    IF h[b].container = 0 THEN NoBuilder(Fail(h, "NotAttachedError"))
    ELSE IF container_idx = 0 THEN NoBuilder(NotInList(Repr(h, b)))
    ELSE [container |-> h[b].container,
          idx |-> container_idx - 1 + (IF after THEN 1 ELSE 0),
          exc |-> "", h |-> h]

BuilderAt(h, b, after) == BuilderFrom(h, b, ContainerIdx(h, b), after)

\* Block.container that answers None for a block without a container
BlockContainerNone(h, b) == Ret(h, <<h[b].container>>)

\* Block.container: the container as <<id>>
BlockContainer(h, b) ==
    IF h[b].container = 0 THEN NoRet(Fail(h, "NotAttachedError"))
    ELSE Ret(h, <<h[b].container>>)

\* Block.container_idx: the index as <<idx>>, as Python counts it
BlockContainerIdx(h, b) ==
    IF h[b].container = 0 THEN NoRet(Fail(h, "NotAttachedError"))
    ELSE IF ContainerIdx(h, b) = 0 THEN NoRet(NotInList(Repr(h, b)))
    ELSE Ret(h, <<ContainerIdx(h, b) - 1>>)

\* Block.next_block / Block.previous_block, i the outcome of container_idx:
\* the block as <<id>>, <<0>> for None
BlockNext(b, i) ==
    IF i.exc # "" THEN i ELSE Ret(i.h, <<NextBlock(i.h, b)>>)
BlockPrevious(b, i) ==
    IF i.exc # "" THEN i ELSE Ret(i.h, <<PreviousBlock(i.h, b)>>)

----------------------------------------------------------------------------
(* option.py *)

\* is_multi_line
IsMultiLine(v) == v # NoneV /\ Contains(v, NL)

\* _set_value with the updated flag kept on the class, not on the instance:
\* the assignment marks every Option as updated
SetValueRawShared(h, o, v) ==
    [i \in 1..Len(h) |->
        IF i = o
        THEN [h[i] EXCEPT !.updated = TRUE, !.joined = TRUE,
                          !.value = v, !.values = <<v>>]
        ELSE IF h[i].kind = "Option" THEN [h[i] EXCEPT !.updated = TRUE]
        ELSE h[i]]

\* Option._set_value
SetValueRaw(h, o, v) ==
    [h EXCEPT ![o].updated = TRUE, ![o].joined = TRUE,
              ![o].value = v, ![o].values = <<v>>]

\* Option.value setter
OptionSetValue(h, o, v) ==
    IF IsMultiLine(v) THEN Fail(h, "AssignMultilineValueError")
    ELSE Ok(SetValueRaw(h, o, v))

\* Option.__init__ without a line: the object it makes
NewOption(key, v, container, delimiter, space_around) ==
    LET o == [Blank("Option", container) EXCEPT
                  !.name = key,
                  !.values = IF v = NoneV THEN <<>> ELSE <<v>>,
                  !.value_is_none = (v = NoneV),
                  !.delimiter = delimiter,
                  !.space_around = space_around]
    IN  IF v = NoneV THEN o
        ELSE [o EXCEPT !.updated = TRUE, !.joined = TRUE, !.value = v]

\* Option.key setter, once _join_multiline_value has run with outcome j
SetKeyJoined(j, o, key) ==
    IF j.exc # "" THEN j
    ELSE Ok([j.h EXCEPT ![o].name = key, ![o].updated = TRUE])

\* Option.key setter
OptionSetKey(h, o, key) == SetKeyJoined(OptionJoin(h, o), o, key)

\* str.split(sep), sep not empty
RECURSIVE Split(_, _)
Split(s, sep) ==
    IF Find(s, sep, 0) = -1 THEN <<s>>
    ELSE <<SubSeq(s, 1, Find(s, sep, 0))>>
         \o Split(SubSeq(s, Find(s, sep, 0) + Len(sep) + 1, Len(s)), sep)

\* [v.strip() for v in pieces]
StripEach(pieces) == [i \in DOMAIN pieces |-> Strip(pieces[i])]

\* Option.value getter, given the outcome j of _join_multiline_value
OptionValue(j, o) == IF j.exc # "" THEN NoRet(j) ELSE Ret(j.h, j.h[o].value)

\* Option.as_list without the strip of the whole value
AsListOfUnstripped(v, separator) ==
    IF v.exc # "" THEN v
    ELSE IF v.ret = NoneV THEN NoRet(Fail(v.h, "AttributeError"))
    ELSE Ret(v.h, StripEach(Split(v.ret, separator)))

\* Option.as_list from `self.value` on, v the outcome of the getter: None has
\* no strip()
AsListOf(v, separator) ==
    IF v.exc # "" THEN v
    ELSE IF v.ret = NoneV THEN NoRet(Fail(v.h, "AttributeError"))
    ELSE Ret(v.h, StripEach(Split(Strip(v.ret), separator)))

\* Option.as_list
AsList(h, o, separator) ==
    IF h[o].value_is_none THEN Ret(h, <<>>)
    ELSE AsListOf(OptionValue(OptionJoin(h, o), o), separator)

\* Option.value_start_idx
ValueStartIdx(h, o) == Len(h[o].name \o Format(GetDelim(h, o, FALSE)))

\* n * " "
Spaces(n) == [i \in 1..n |-> " "]

\* Option.set_values from `if indent is None` on, with indent None; the
\* caller's list is read, never written
SetValuesIndent(h, o, values, separator, prepend_newline, indent) ==
    [h EXCEPT ![o].value =
        IF prepend_newline /\ Contains(separator, NL)
        THEN Join(<<<<>>>> \o values, separator \o indent)
        ELSE IF Contains(separator, NL) THEN Join(values, separator \o indent)
        ELSE Join(values, separator)]

\* Option.set_values(values, separator, prepend_newline=...)
SetValues(h, o, values, separator, prepend_newline) ==
    SetValuesIndent([h EXCEPT ![o].updated = TRUE, ![o].joined = TRUE,
                              ![o].values = values],
                    o, values, separator, prepend_newline,
                    IF prepend_newline THEN Spaces(4)
                    ELSE Spaces(ValueStartIdx(h, o)))

\* Option.append from new_values.append(value) on, given the outcome l of
\* as_list; separator is NoneV when the keyword is not given
AppendTo(l, o, v, separator) ==
    IF l.exc # "" THEN Fail(l.h, l.exc)
    ELSE Ok(SetValues(l.h, o, Append(l.ret, v),
                      IF separator = NoneV THEN NL ELSE separator, TRUE))

\* Option.append(value, separator=...)
OptionAppend(h, o, v, separator) ==
    AppendTo(AsList(h, o, IF separator = NoneV THEN NL ELSE separator),
             o, v, separator)

\* Document.optionxform
Optionxform(s) == Lower(s)

\* Option.key
OptionKeyGet(h, o) ==
    IF h[o].container = 0 \/ h[h[o].container].container = 0
    THEN NoRet(Fail(h, "NotAttachedError"))
    ELSE Ret(h, Optionxform(h[o].name))

\* Option.key raises NotAttachedError: the option or its section is detached
KeyRaises(h, o) == h[o].container = 0 \/ h[h[o].container].container = 0

\* Option.key of an option for which it does not raise
OptionKey(h, o) == Optionxform(h[o].name)

----------------------------------------------------------------------------
(* section.py *)

\* the positions of the Options in a section's list
OptionPositions(h, s) ==
    {i \in 1..Len(h[s].structure) : h[h[s].structure[i]].kind = "Option"}

\* the scan over iter_options() comparing the raw spelling o.raw_key == key
FindOptionRaw(h, s, key) ==
    LET at == {i \in 1..Len(h[s].structure) :
                  /\ h[h[s].structure[i]].kind = "Option"
                  /\ h[h[s].structure[i]].name = key}
    IN  [idx |-> IF at = {} THEN 0 ELSE Min(at), exc |-> ""]

\* the scan `o.key == key` over iter_options() that __contains__,
\* __getitem__ and _get_option_idx share, given the positions where it stops
\* (the key raises or is the one looked for): [idx, exc], idx = 0 when the
\* scan ends without a hit
ScanStop(h, s, stop) ==
    IF stop = {} THEN [idx |-> 0, exc |-> ""]
    ELSE IF KeyRaises(h, h[s].structure[Min(stop)])
    THEN [idx |-> 0, exc |-> "NotAttachedError"]
    ELSE [idx |-> Min(stop), exc |-> ""]

FindOption(h, s, key) ==
    ScanStop(h, s, {i \in OptionPositions(h, s) :
                        \/ KeyRaises(h, h[s].structure[i])
                        \/ OptionKey(h, h[s].structure[i]) = key})

\* `key in section.options()`: [found, exc]
InOptions(h, s, key) ==
    IF \E i \in OptionPositions(h, s) : KeyRaises(h, h[s].structure[i])
    THEN [found |-> FALSE, exc |-> "NotAttachedError"]
    ELSE [found |-> \E i \in OptionPositions(h, s) :
                        OptionKey(h, h[s].structure[i]) = key,
          exc |-> ""]

\* Section.__getitem__ from the scan on; f is the outcome of the scan
GetItemFound(h, s, f) ==
    IF f.exc # "" THEN NoRet(Fail(h, f.exc))
    ELSE IF f.idx = 0 THEN NoRet(Fail(h, "KeyError"))
    ELSE Ret(h, <<h[s].structure[f.idx]>>)

\* Section.__getitem__: self.document raises for a Section without container
SectionGetItem(h, s, key) ==
    IF h[s].container = 0 THEN NoRet(Fail(h, "NotAttachedError"))
    ELSE GetItemFound(h, s, FindOption(h, s, Optionxform(key)))

\* Section.__contains__
SectionContains(h, s, key) ==
    LET f == FindOption(h, s, key)
    IN  IF f.exc # "" THEN NoRet(Fail(h, f.exc)) ELSE Ret(h, <<f.idx # 0>>)

\* Section.to_dict: opt.key, then opt.value, for each Option in order; r is
\* the outcome so far ([h, exc]: the dict itself is not kept)
RECURSIVE ToDictAll(_, _)
ToDictAll(r, ids) ==
    IF r.exc # "" \/ ids = <<>> THEN r
    ELSE IF r.h[Head(ids)].kind # "Option" THEN ToDictAll(r, Tail(ids))
    ELSE IF KeyRaises(r.h, Head(ids)) THEN Fail(r.h, "NotAttachedError")
    ELSE ToDictAll(OptionJoin(r.h, Head(ids)), Tail(ids))
SectionToDict(h, s) == ToDictAll(Ok(h), h[s].structure)

\* Section.create_option with the syntax options opts of the section's
\* container: the object it makes
CreateWith(opts, s, key, v) ==
    NewOption(key, v, s,
              IF opts = <<>> THEN <<"=">>
              ELSE IF <<"=">> \in opts[1].delimiters THEN <<"=">>
              ELSE CHOOSE d \in opts[1].delimiters : TRUE,
              IF opts = <<>> THEN TRUE ELSE opts[1].space_around_delimiters)

CreateOption(h, s, key, v) == CreateWith(SyntaxOf(h, h[s].container), s, key, v)

\* the block b, attached with outcome a, goes to the end of c's list
AppendAttached(a, c, b) ==
    IF a.exc # "" THEN a
    ELSE Ok([a.h EXCEPT ![c].structure = Append(@, b)])

\* the block b, attached with outcome a, goes into c's list at idx (Python's)
InsertAttached(a, c, b, idx) ==
    IF a.exc # "" THEN a
    ELSE Ok([a.h EXCEPT ![c].structure = ListInsert(@, idx, b)])

\* the replaced block is detached with outcome d, then b is attached to c and
\* put where the replaced block was
Replace(d, c, b, idx) ==
    IF d.exc # "" THEN d
    ELSE InsertAttached(BlockAttach(d.h, b, c), c, b, idx)

\* Section.add_option
SectionAddOption(h, s, o) == AppendAttached(BlockAttach(h, o, s), s, o)

\* Section.__setitem__ from `if given_key in self` on; f is the outcome of
\* that scan
SetItemFound(h, s, key, v, o, f) ==
    IF f.exc # "" THEN Fail(h, f.exc)
    ELSE IF f.idx # 0
    THEN IF o # 0
         THEN Replace(BlockDetach(h, h[s].structure[f.idx]), s, o,
                      ContainerIdx(h, h[s].structure[f.idx]) - 1)
         ELSE OptionSetValue(h, h[s].structure[f.idx], v)
    ELSE IF o # 0 THEN SectionAddOption(h, s, o)
    ELSE Ok([Append(h, CreateOption(h, s, key, v)) EXCEPT
                ![s].structure = Append(@, Len(h) + 1)])

\* Section.__setitem__: the value is an Option object o (o # 0) or v, a str or None
SectionSetItem(h, s, key, v, o) ==
    IF h[s].container = 0 THEN Fail(h, "NotAttachedError")
    ELSE IF o # 0 /\ Optionxform(h[o].name) # Optionxform(key) THEN Fail(h, "ValueError")
    ELSE SetItemFound(h, s, key, v, o, FindOption(h, s, Optionxform(key)))

\* Section.__delitem__, f the outcome of _get_option_idx
DelItemFound(h, s, f) ==
    IF f.exc # "" THEN Fail(h, f.exc)
    ELSE IF f.idx = 0 THEN Fail(h, "KeyError")
    ELSE Ok([h EXCEPT ![s].structure = DelAt(@, f.idx)])

\* Section.__delitem__
SectionDelItem(h, s, key) == DelItemFound(h, s, FindOption(h, s, key))

\* the end of Section.set: self[option].value = value, once the option is
\* there (made: the outcome of making it)
SetMade(made, s, key, v) ==
    IF made.exc # "" THEN made
    ELSE OptionSetValue(made.h,
                        made.h[s].structure[FindOption(made.h, s, key).idx], v)

\* Section.set from `if option not in self.options()` on; present is the
\* outcome of that test
SetPresent(h, s, key, v, present) ==
    IF present.exc # "" THEN Fail(h, present.exc)
    ELSE IF present.found THEN SetMade(Ok(h), s, key, v)
    ELSE SetMade(SectionSetItem(Append(h, CreateOption(h, s, key, NoneV)),
                                s, key, NoneV, Len(h) + 1),
                 s, key, v)

\* Section.set with a str or None
SectionSet(h, s, option, v) ==
    IF h[s].container = 0 THEN Fail(h, "NotAttachedError")
    ELSE SetPresent(h, s, Optionxform(option), v,
                    InOptions(h, s, Optionxform(option)))

\* Section.name setter
SectionSetName(h, s, name) ==
    [h EXCEPT ![s].name = name, ![s].updated = TRUE]

----------------------------------------------------------------------------
(* document.py *)

\* Section.__init__ with a name only: the object it makes
NewSection(name) == [Blank("Section", 0) EXCEPT !.name = name]

\* the positions of the Sections called `name` in a document's list
SectionPositions(h, d, name) ==
    {i \in 1..Len(h[d].structure) :
        /\ h[h[d].structure[i]].kind = "Section"
        /\ h[h[d].structure[i]].name = name}

\* Document.__contains__ (has_section)
HasSection(h, d, name) == SectionPositions(h, d, name) # {}

\* Document._get_section_idx as a 1-based position; the section exists
GetSectionIdx(h, d, name) == Min(SectionPositions(h, d, name))

\* Document.__getitem__; the section exists
GetSection(h, d, name) == h[d].structure[GetSectionIdx(h, d, name)]

\* Document.add_section that appends without attach()
AddSectionUnattached(h, d, sec) ==
    IF HasSection(h, d, h[sec].name) THEN Fail(h, "DuplicateSectionError")
    ELSE Ok([h EXCEPT ![d].structure = Append(@, sec)])

\* Document.add_section with a Section object
AddSectionObj(h, d, sec) ==
    IF HasSection(h, d, h[sec].name) THEN Fail(h, "DuplicateSectionError")
    ELSE AppendAttached(BlockAttach(h, sec, d), d, sec)

\* Document.add_section with an object that is not a str
AddSectionArg(h, d, b) ==
    IF h[b].kind # "Section" THEN Fail(h, "ValueError")
    ELSE AddSectionObj(h, d, b)

\* Document.add_section with a name
AddSectionName(h, d, name) ==
    IF HasSection(h, d, name) THEN Fail(h, "DuplicateSectionError")
    ELSE AddSectionObj(Append(h, NewSection(name)), d, Len(h) + 1)

\* Document.__setitem__ with a Section object
DocumentSetItem(h, d, key, sec) ==
    IF HasSection(h, d, key)
    THEN Replace(BlockDetach(h, GetSection(h, d, key)), d, sec,
                 GetSectionIdx(h, d, key) - 1)
    ELSE IF h[sec].name # key THEN Fail(h, "ValueError")
    ELSE AddSectionObj(h, d, sec)

\* Document.has_option: `key in {}` when no section has the name
DocumentHasOption(h, d, section, option) ==
    IF ~HasSection(h, d, section) THEN Ret(h, <<FALSE>>)
    ELSE SectionContains(h, GetSection(h, d, section), Optionxform(option))

\* Document.remove_section: the heap it leaves (it never raises)
RemoveSection(h, d, name) ==
    IF HasSection(h, d, name)
    THEN [h EXCEPT ![d].structure = DelAt(@, GetSectionIdx(h, d, name))]
    ELSE h

\* Document.__delitem__
DocumentDelItem(h, d, name) ==
    IF HasSection(h, d, name) THEN Ok(RemoveSection(h, d, name))
    ELSE Fail(h, "KeyError")

\* Document.set with a str or None
DocumentSet(h, d, section, option, v) ==
    IF ~HasSection(h, d, section) THEN Fail(h, "NoSectionError")
    ELSE SectionSet(h, GetSection(h, d, section), Optionxform(option), v)

\* what Document.remove_option returns when it does not raise: `existed`
RemoveOptionExisted(h, d, section, option) ==
    InOptions(h, GetSection(h, d, section), Optionxform(option)).found

\* Document.remove_option from `existed = ...` on
RemoveExisting(h, sec, key, existed) ==
    IF existed.exc # "" THEN Fail(h, existed.exc)
    ELSE IF existed.found THEN SectionDelItem(h, sec, key)
    ELSE Ok(h)

\* Document.remove_option
RemoveOption(h, d, section, option) ==
    IF ~HasSection(h, d, section) THEN Fail(h, "NoSectionError")
    ELSE RemoveExisting(h, GetSection(h, d, section), Optionxform(option),
                        InOptions(h, GetSection(h, d, section), Optionxform(option)))

----------------------------------------------------------------------------
(* Document.clear, Section.clear *)

\* `for block in self._structure: block.detach()`: the loop is at index i
\* (1-based) of the list as it is now; r is the outcome so far.  Then
\* self._structure.clear().
RECURSIVE ClearFrom(_, _, _)
ClearFrom(r, c, i) ==
    IF r.exc # "" THEN r
    ELSE IF i > Len(r.h[c].structure)
    THEN Ok([r.h EXCEPT ![c].structure = <<>>])
    ELSE ClearFrom(BlockDetach(r.h, r.h[c].structure[i]), c, i + 1)

\* container.clear()
Clear(h, c) == ClearFrom(Ok(h), c, 1)

----------------------------------------------------------------------------
(* copy.deepcopy of a block *)

\* _instantiate_copy of an Option joins its value first; deepcopy of a
\* Section copies its blocks in order, so the values are joined in the order
\* repr reads them
JoinedForCopy(h, b) == Repr(h, b)

\* Block.__deepcopy__ on the object _instantiate_copy makes: the clone of b,
\* without blocks of its own
CloneOf(h, b) ==
    LET made == CASE h[b].kind = "Option" ->
                       NewOption(h[b].name, h[b].value, 0,
                                 h[b].delimiter, h[b].space_around)
                  [] h[b].kind = "Section" ->
                       [NewSection(h[b].name) EXCEPT
                            !.raw_comment = h[b].raw_comment]
                  [] OTHER -> Blank(h[b].kind, 0)
    IN  [made EXCEPT !.lines = h[b].lines, !.updated = h[b].updated]

\* Container._copy_structure: the deep copies of the blocks `ids`, attached
\* to clone and put into its list; memo holds <<block, its copy>> for the
\* blocks copied so far, and a block met again gives the same copy
RECURSIVE CopyStructure(_, _, _, _)
CopyStructure(h, clone, ids, memo) ==
    IF ids = <<>> THEN h
    ELSE LET b == Head(ids)
             known == {i \in DOMAIN memo : memo[i][1] = b}
             id == Len(h) + 1
         IN  IF known # {}
             THEN CopyStructure(
                      [h EXCEPT ![clone].structure = Append(@, memo[Min(known)][2])],
                      clone, Tail(ids), memo)
             ELSE CopyStructure(
                      [AttachUnchecked(Append(h, CloneOf(h, b)), id, clone)
                          EXCEPT ![clone].structure = Append(@, id)],
                      clone, Tail(ids), Append(memo, <<b, id>>))

\* the clone of b and of its blocks, once the values are joined with outcome j
CopyJoined(j, b) ==
    IF j.exc # "" THEN NoRet(j)
    ELSE Ret(CopyStructure(Append(j.h, CloneOf(j.h, b)), Len(j.h) + 1,
                           j.h[b].structure, <<>>),
             <<Len(j.h) + 1>>)

\* copy.deepcopy(block): Block.__deepcopy__, Section.__deepcopy__
DeepCopy(h, b) == CopyJoined(JoinedForCopy(h, b), b)

----------------------------------------------------------------------------
(* builder.py: a BlockBuilder on container c at index idx (Python's) *)

\* BlockBuilder._insert
BuilderInsert(h, c, idx, b) ==
    [h EXCEPT ![c].structure = ListInsert(@, idx, b)]

\* the text BlockBuilder.comment makes a line of
CommentLine(txt) ==
    (IF StartsWith(txt, <<"#">>) THEN <<>> ELSE <<"#", " ">>)
    \o txt \o (IF EndsWith(txt, NL) THEN <<>> ELSE NL)

\* BlockBuilder.comment with the default prefix
BuilderComment(h, c, idx, txt) ==
    Ok(BuilderInsert(BlockAddLine(Append(h, Blank("Comment", c)), Len(h) + 1,
                                  CommentLine(txt)),
                     c, idx, Len(h) + 1))

\* BlockBuilder.space
BuilderSpace(h, c, idx, newlines) ==
    Ok(BuilderInsert(Append(h, [Blank("Space", c) EXCEPT
                                    !.lines = [i \in 1..newlines |-> NL]]),
                     c, idx, Len(h) + 1))

\* BlockBuilder.section with a Section object
BuilderSectionObj(h, c, idx, sec) ==
    IF h[c].kind # "Document" THEN Fail(h, "ValueError")
    ELSE IF HasSection(h, c, h[sec].name) THEN Fail(h, "DuplicateSectionError")
    ELSE InsertAttached(BlockAttach(h, sec, c), c, sec, idx)

\* BlockBuilder.section with a name
BuilderSectionName(h, c, idx, name) ==
    IF h[c].kind # "Document" THEN Fail(h, "ValueError")
    ELSE IF HasSection(h, c, name) THEN Fail(h, "DuplicateSectionError")
    ELSE BuilderSectionObj(Append(h, NewSection(name)), c, idx, Len(h) + 1)

\* BlockBuilder.option from `option.value = value` on, set its outcome
InsertSet(h, set, c, idx) ==
    IF set.exc # "" THEN Fail(h, set.exc)
    ELSE Ok(BuilderInsert(set.h, c, idx, Len(h) + 1))

\* BlockBuilder.option from `if option.key in section.options()` on
OptionUnlessDup(h, c, idx, key, v, dup) ==
    IF dup.exc # "" THEN Fail(h, dup.exc)
    ELSE IF dup.found THEN Fail(h, "DuplicateOptionError")
    ELSE InsertSet(h, OptionSetValue(Append(h, CreateOption(h, c, key, v)),
                                     Len(h) + 1, v),
                   c, idx)

\* BlockBuilder.option
BuilderOption(h, c, idx, key, v) ==
    IF h[c].kind # "Section" THEN Fail(h, "ValueError")
    ELSE IF h[c].container = 0 THEN Fail(h, "NotAttachedError")
    ELSE OptionUnlessDup(h, c, idx, key, v, InOptions(h, c, Optionxform(key)))

\* a call on the builder that add_before / add_after gave (at): the
\* exception of the property, or the call on the builder
CommentAt(h, at, txt) ==
    IF at.exc # "" THEN Fail(at.h, at.exc)
    ELSE BuilderComment(h, at.container, at.idx, txt)
SpaceAt(h, at, newlines) ==
    IF at.exc # "" THEN Fail(at.h, at.exc)
    ELSE BuilderSpace(h, at.container, at.idx, newlines)
SectionNameAt(h, at, name) ==
    IF at.exc # "" THEN Fail(at.h, at.exc)
    ELSE BuilderSectionName(h, at.container, at.idx, name)
SectionObjAt(h, at, sec) ==
    IF at.exc # "" THEN Fail(at.h, at.exc)
    ELSE BuilderSectionObj(h, at.container, at.idx, sec)
OptionAt(h, at, key, v) ==
    IF at.exc # "" THEN Fail(at.h, at.exc)
    ELSE BuilderOption(h, at.container, at.idx, key, v)

\* one call on a builder that stands at idx of c; call is [kind, key, value]:
\* comment(value), space(1) or option(key, value)
BuilderStep(h, c, idx, call) ==
    CASE call.kind = "comment" -> BuilderComment(h, c, idx, call.value)
      [] call.kind = "space" -> BuilderSpace(h, c, idx, 1)
      [] OTHER -> BuilderOption(h, c, idx, call.key, call.value)

\* chained calls on one builder: each call returns the builder, whose _idx
\* _insert has moved on by one; r is the outcome so far
RECURSIVE BuilderChain(_, _, _, _)
BuilderChain(r, c, idx, calls) ==
    IF r.exc # "" \/ calls = <<>> THEN r
    ELSE BuilderChain(BuilderStep(r.h, c, idx, Head(calls)), c, idx + 1,
                      Tail(calls))

\* chained calls on the builder that add_before / add_after gave (at)
ChainAt(h, at, calls) ==
    IF at.exc # "" THEN Fail(at.h, at.exc)
    ELSE BuilderChain(Ok(h), at.container, at.idx, calls)

----------------------------------------------------------------------------
(* parser.py: the hooks that build the tree *)

\* Section.add_comment, Section.add_space
SectionAddLine(h, s, kind, line) ==
    LET lb == LastBlock(h, s)
    IN  IF IsKind(h, lb, kind) THEN BlockAddLine(h, lb, line)
        ELSE LET id == Len(h) + 1
                 h1 == [Append(h, Blank(kind, s)) EXCEPT ![s].structure = Append(@, id)]
             IN  BlockAddLine(h1, id, line)

\* Parser._update_curr_block that makes a block for every line
UpdateCurrBlockEach(h, doc, kind, line) ==
    BlockAddLine(ContainerAppend(Append(h, Blank(kind, doc)), doc, Len(h) + 1),
                 Len(h) + 1, line)

\* Parser._update_curr_block(block_type).add_line(line)
UpdateCurrBlock(h, doc, kind, line) ==
    LET lb == LastBlock(h, doc)
    IN  IF IsKind(h, lb, kind) THEN BlockAddLine(h, lb, line)
        ELSE LET id == Len(h) + 1
                 h1 == ContainerAppend(Append(h, Blank(kind, doc)), doc, id)
             IN  BlockAddLine(h1, id, line)

\* Parser._add_comment, Parser._add_space
ParserAddLine(h, doc, kind, line) ==
    IF IsKind(h, LastBlock(h, doc), "Section")
    THEN SectionAddLine(h, LastBlock(h, doc), kind, line)
    ELSE UpdateCurrBlock(h, doc, kind, line)

\* Parser._add_section
ParserAddSection(h, doc, sectname, raw_comment, line) ==
    LET id == Len(h) + 1
        sec == [Blank("Section", doc) EXCEPT
                    !.name = sectname, !.raw_comment = raw_comment, !.lines = <<line>>]
    IN  ContainerAppend(Append(h, sec), doc, id)

\* Parser._add_option: [h, exc]
ParserAddOption(h, doc, key, vi, value, line, space_around) ==
    IF ~IsKind(h, LastBlock(h, doc), "Section")
    THEN Fail(h, "InconsistentStateError")
    ELSE Ok([OptionAddValue(
                Append(h, [Blank("Option", LastBlock(h, doc)) EXCEPT
                              !.name = key, !.delimiter = vi,
                              !.space_around = space_around, !.lines = <<line>>]),
                Len(h) + 1, value)
             EXCEPT ![LastBlock(h, doc)].structure = Append(@, Len(h) + 1)])

\* the end of Parser._add_option_line: last_option takes the line
AddOptionLineTo(h, last_option, line) ==
    IF ~(IsKind(h, last_option, "Option") \/ IsKind(h, last_option, "Space"))
    THEN Fail(h, "InconsistentStateError")
    ELSE Ok(AddLine(h, last_option, line))

\* Parser._add_option_line when the last block is a Comment: the comment is
\* detached and its lines go to the block before it (prev: previous_block,
\* read before the detach)
MoveComment(h, comment, prev, line) ==
    IF prev = 0 /\ h[comment].lines # <<>>
    THEN Fail(DetachBlock(h, comment), "AttributeError")
    ELSE AddOptionLineTo(AddLines(DetachBlock(h, comment), prev, h[comment].lines),
                         prev, line)

\* Parser._add_option_line with last_option, the last block of the section
AddOptionLineAfter(h, last_option, line) ==
    IF ~IsKind(h, last_option, "Comment") THEN AddOptionLineTo(h, last_option, line)
    ELSE IF h[last_option].container = 0 THEN Fail(h, "NotAttachedError")
    ELSE MoveComment(h, last_option, PreviousBlock(h, last_option), line)

\* Parser._add_option_line: [h, exc]
ParserAddOptionLine(h, doc, line) ==
    IF ~IsKind(h, LastBlock(h, doc), "Section")
    THEN Fail(h, "InconsistentStateError")
    ELSE AddOptionLineAfter(h, LastBlock(h, LastBlock(h, doc)), line)

\* Parser._merge_option_with_space
MergeOptionWithSpace(h, option, space) ==
    LET ls == h[space].lines
        last_val_idx == Max({i \in 1..Len(ls) : Strip(ls[i]) # <<>>})
        value_lines == SubSeq(ls, 1, last_val_idx)
        merge_vals == Concat([i \in 1..Len(value_lines) |-> LStripBlanks(value_lines[i])])
    IN  [h EXCEPT ![option].values = Append(@, merge_vals),
                  ![option].joined = FALSE,
                  ![option].lines = @ \o value_lines,
                  ![space].lines = SubSeq(ls, last_val_idx + 1, Len(ls))]

\* the body of the inner loop of Parser._check_values_with_blank_lines
CheckNext(h, option, next_block) ==
    IF IsKind(h, next_block, "Space") /\ Strip(Concat(h[next_block].lines)) # <<>>
    THEN MergeOptionWithSpace(h, option, next_block)
    ELSE h

CheckOption(h, option) == CheckNext(h, option, NextBlock(h, option))

\* Document.section_blocks, Section.option_blocks
BlocksOfKind(h, c, kind) ==
    SelectSeq(h[c].structure, LAMBDA b : h[b].kind = kind)

RECURSIVE CheckOptions(_, _)
CheckOptions(h, options) ==
    IF options = <<>> THEN h
    ELSE CheckOptions(CheckOption(h, Head(options)), Tail(options))

RECURSIVE CheckSections(_, _)
CheckSections(h, sections) ==
    IF sections = <<>> THEN h
    ELSE CheckSections(CheckOptions(h, BlocksOfKind(h, Head(sections), "Option")),
                       Tail(sections))

\* Parser._check_values_with_blank_lines
CheckValuesWithBlankLines(h, doc) ==
    CheckSections(h, BlocksOfKind(h, doc, "Section"))

----------------------------------------------------------------------------
(* parser.py: Parser._read *)

\* the while loop that looks for an inline comment: `alive` holds, for each
\* prefix still searched, the index of its last occurrence found
RECURSIVE InlineScan(_, _, _)
InlineScan(line, alive, comment_start) ==
    IF comment_start # maxsize \/ alive = {} THEN comment_start
    ELSE LET found == {q \in {<<pi[1], Find(line, pi[1], pi[2] + 1)>> : pi \in alive} :
                            q[2] # -1}
             valid == {q[2] : q \in {r \in found :
                            r[2] = 0 \/ (r[2] > 0 /\ IsSpace(line[r[2]]))}}
         IN  InlineScan(line, found, Min(valid \cup {comment_start}))

\* SECTCRE.match(value): 0 when there is no match, else the position of the
\* closing bracket (.+ is greedy: the last one that leaves a header)
SectClose(value) ==
    IF Len(value) = 0 \/ value[1] # "[" THEN 0
    ELSE Max({j \in 3..Len(value) : value[j] = "]"} \cup {0})

\* self._optcre.match(value), for one-character delimiters: the groups
\* option, vi and value, or no match
OptMatch(value, cf) ==
    LET ds == {i \in 1..Len(value) : <<value[i]>> \in cf.delimiters}
        d == Min(ds)
    IN  IF ds # {}
        THEN [match |-> TRUE,
              option |-> RStrip(SubSeq(value, 1, d - 1)),
              vi |-> <<value[d]>>,
              value |-> LStrip(SubSeq(value, d + 1, Len(value)))]
        ELSE IF cf.allow_no_value
        THEN [match |-> TRUE, option |-> value, vi |-> NoneV, value |-> NoneV]
        ELSE [match |-> FALSE, option |-> NoneV, vi |-> NoneV, value |-> NoneV]

\* truth value of an Optional[str]
Truthy(s) == s # NoneV /\ s # <<>>

NoExc == [type |-> "", lineno |-> 0]

\* the frame of _read before the first line
ReadStart(doc) ==
    [ doc |-> doc,                \* self._document
      cursect |-> FALSE,          \* cursect is not None
      sectname |-> NoneV,
      optname |-> NoneV,
      lineno |-> 0,
      indent_level |-> 0,
      e |-> <<>>,                 \* the lines ParsingError lists: <<lineno, line>>
      elements_added |-> {},      \* [sect, opt]; opt is NoneV for a section
      exc |-> NoExc ]             \* the exception that left the loop

Raise(r, type) == [r EXCEPT !.exc = [type |-> type, lineno |-> r.lineno]]

\* Parser._handle_error that keeps the first line only
HandleErrorFirst(e, lineno, line) == IF e = <<>> THEN <<<<lineno, line>>>> ELSE e

\* Parser._handle_error
HandleError(e, lineno, line) == Append(e, <<lineno, line>>)

\* the duplicate test as a parser that is not strict makes it
InElementsAddedLax(cf, sectname, optname, elements_added) ==
    ~cf.strict /\ [sect |-> sectname, opt |-> optname] \in elements_added

\* the test both duplicate checks make:
\* self._strict and (sectname, optname) in elements_added
InElementsAdded(cf, sectname, optname, elements_added) ==
    cf.strict /\ [sect |-> sectname, opt |-> optname] \in elements_added

\* the outcome of a hook, in the frame: [h, r], r.exc set when the hook raised
AfterHook(res, r) ==
    [h |-> res.h, r |-> IF res.exc = "" THEN r ELSE Raise(r, res.exc)]

\* "is it a section header?" when SECTCRE matches with the groups header
\* (sectname) and raw_comment
ReadSection(h, r, cf, line, sectname, raw_comment) ==
    IF InElementsAdded(cf, sectname, NoneV, r.elements_added)
    THEN [h |-> h, r |-> Raise([r EXCEPT !.sectname = sectname], "DuplicateSectionError")]
    ELSE [h |-> ParserAddSection(h, r.doc, sectname, raw_comment, line),
          r |-> [r EXCEPT !.sectname = sectname, !.cursect = TRUE,
                          !.optname = NoneV,
                          !.elements_added = @ \cup {[sect |-> sectname, opt |-> NoneV]}]]

\* "an option line?" when self._optcre matches with the groups option, vi and
\* value; r.e already has the error of an empty option name
ReadOption(h, r, cf, line, optname, vi, optval) ==
    IF InElementsAdded(cf, r.sectname, optname, r.elements_added)
    THEN [h |-> h, r |-> Raise([r EXCEPT !.optname = optname], "DuplicateOptionError")]
    ELSE AfterHook(ParserAddOption(h, r.doc, optname, vi, optval, line,
                                   cf.space_around_delimiters),
                   [r EXCEPT !.optname = optname,
                             !.elements_added = @ \cup {[sect |-> r.sectname,
                                                         opt |-> optname]}])

\* "an option line?": the match, or the indented comment, or the error
ReadOptionLine(h, r, cf, line, mo) ==
    IF mo.match
    THEN ReadOption(h,
                    IF mo.option = <<>>
                    THEN [r EXCEPT !.e = HandleError(@, r.lineno, line)] ELSE r,
                    cf, line, RStrip(mo.option), mo.vi,
                    IF mo.value # NoneV THEN Strip(mo.value) ELSE NoneV)
    ELSE IF <<line[FirstNonSpace(line)]>> \in cf.comment_prefixes
    THEN [h |-> ParserAddLine(h, r.doc, "Comment", line), r |-> r]
    ELSE [h |-> h, r |-> [r EXCEPT !.e = HandleError(@, r.lineno, line)]]

\* the else branch of "continuation line?" that records a line before the
\* first section header as a non-fatal error
ReadHeaderRecording(h, r, cf, line, value) ==
    IF SectClose(value) # 0
    THEN ReadSection(h, r, cf, line,
                     SubSeq(value, 2, SectClose(value) - 1),
                     SubSeq(value, SectClose(value) + 1, Len(value)))
    ELSE IF ~r.cursect
    THEN [h |-> h, r |-> [r EXCEPT !.e = HandleError(@, r.lineno, line)]]
    ELSE ReadOptionLine(h, r, cf, line, OptMatch(value, cf))

\* the else branch of "continuation line?": a section header, an option line,
\* an indented comment or a malformed line; r.indent_level is already set
ReadHeader(h, r, cf, line, value) ==
    IF SectClose(value) # 0
    THEN ReadSection(h, r, cf, line,
                     SubSeq(value, 2, SectClose(value) - 1),
                     SubSeq(value, SectClose(value) + 1, Len(value)))
    ELSE IF ~r.cursect
    THEN [h |-> h, r |-> Raise(r, "MissingSectionHeaderError")]
    ELSE ReadOptionLine(h, r, cf, line, OptMatch(value, cf))

\* "strip full line comments": some prefix starts the line
IsFullLineComment(line, cf) ==
    \E p \in cf.comment_prefixes : StartsWith(RStrip(line), p)

\* comment_start when the comment loops are done: 0 for a full-line comment,
\* the index of the inline comment, -1 for None
CommentStart(line, cf, inline) ==
    IF IsFullLineComment(line, cf) THEN 0
    ELSE IF inline = maxsize THEN -1 ELSE inline

\* cursect is not None and optname
IsOpen(r) == r.cursect /\ Truthy(r.optname)

\* "if not value": the rest of the turn once the hook for a non-empty line
\* inside a value (res) has run
ReadEmpty(res, r, cf, line, comment_start) ==
    IF res.exc # "" THEN [h |-> res.h, r |-> Raise(r, res.exc)]
    ELSE [h |-> IF comment_start = -1
                THEN ParserAddLine(res.h, r.doc, "Space", line) ELSE res.h,
          r |-> IF cf.empty_lines_in_values THEN r
                ELSE [r EXCEPT !.indent_level = maxsize]]

\* the turn from `value = line[:comment_start].strip()` on
ReadValue(h, r, cf, line, comment_start, value) ==
    IF value = <<>>
    THEN ReadEmpty(IF /\ cf.empty_lines_in_values
                      /\ comment_start = -1
                      /\ IsOpen(r)
                      /\ Strip(line) # <<>>
                   THEN ParserAddOptionLine(h, r.doc, line) ELSE Ok(h),
                   r, cf, line, comment_start)
    ELSE IF IsOpen(r) /\ FirstNonSpace(line) - 1 > r.indent_level
    THEN AfterHook(ParserAddOptionLine(h, r.doc, line), r)
    ELSE ReadHeader(h, [r EXCEPT !.indent_level = FirstNonSpace(line) - 1],
                    cf, line, value)

\* the turn once comment_start is known
ReadComment(h, r, cf, line, comment_start) ==
    ReadValue(h, r, cf, line, comment_start,
              Strip(IF comment_start = -1 THEN line
                    ELSE SubSeq(line, 1, comment_start)))

\* one turn of the for loop of _read: [h, r], r.exc set when the turn raises
ReadLine(h, r, cf, line) ==
    ReadComment(IF IsFullLineComment(line, cf)
                THEN ParserAddLine(h, r.doc, "Comment", line) ELSE h,
                [r EXCEPT !.lineno = @ + 1], cf, line,
                CommentStart(line, cf,
                    InlineScan(line, {<<p, -1>> : p \in cf.inline_comment_prefixes},
                               maxsize)))

\* what follows the loop: [h, r]
ReadEnd(h, r, cf) ==
    IF r.e # <<>> THEN [h |-> h, r |-> Raise(r, "ParsingError")]
    ELSE [h |-> IF cf.empty_lines_in_values
                THEN CheckValuesWithBlankLines(h, r.doc) ELSE h,
          r |-> r]

\* the whole of _read on the lines of a stream: [h, r]
RECURSIVE ReadLines(_, _, _, _)
RECURSIVE ReadRest(_, _, _)
ReadRest(s, cf, lines) ==
    IF s.r.exc # NoExc THEN s ELSE ReadLines(s.h, s.r, cf, lines)
ReadLines(h, r, cf, lines) ==
    IF lines = <<>> THEN ReadEnd(h, r, cf)
    ELSE ReadRest(ReadLine(h, r, cf, Head(lines)), cf, Tail(lines))

----------------------------------------------------------------------------
(* Parsing a stream: read_string / read_file into a Document *)

\* the physical lines an input is made of
Lines ==
    { <<"[", "s", "]", "\n">>,
      <<"[", "t", "]", "\n">>,
      <<"k", "=", "1", "\n">>,
      <<"K", "=", "2", "\n">>,
      <<"k", "\n">>,
      <<" ", " ", "x", "\n">>,
      <<"\n">>,
      <<"#", " ", "c", "\n">>,
      <<" ", " ", "#", " ", "c", "\n">>,
      <<" ", " ", "j", "=", "1", "\n">>,
      <<" ", "#", "\n">>,
      <<"[", "u", "]", " ", "#", "]", "\n">>,
      <<"j", "=", "1", " ", "#", "\n">>,
      <<" ", " ", "x", " ", "#", "\n">> }

\* Parser.__init__: the syntax options
Configs ==
    [ allow_no_value : BOOLEAN,
      delimiters : {{<<"=">>, <<":">>}},
      comment_prefixes : {{<<"#">>, <<";">>}},
      inline_comment_prefixes : {{}, {<<"#">>}},
      strict : {TRUE},
      empty_lines_in_values : BOOLEAN,
      space_around_delimiters : {TRUE} ]

\* the arguments of a public call: a section name, an option key, a value, an
\* object, an index (or prepend_newline as 0 / 1), a list of values, a separator
NoArg ==
    [name |-> NoneV, key |-> NoneV, value |-> NoneV, obj |-> 0, idx |-> 0,
     values |-> <<>>, separator |-> NoneV]

\* no public call has been made yet; n counts the calls, ret is what the
\* call returned
NoCall == [op |-> "", exc |-> "", target |-> 0, arg |-> NoArg, n |-> 0,
           ret |-> <<>>]

\* the objects of a heap, by class
Documents(h) == {i \in 1..Len(h) : h[i].kind = "Document"}
Sections(h) == {i \in 1..Len(h) : h[i].kind = "Section"}
Options(h) == {i \in 1..Len(h) : h[i].kind = "Option"}
Blocks(h) == {i \in 1..Len(h) : h[i].kind # "Document"}

\* the values given to the single-value assignments: a str, a str with a
\* newline in it, None
Values == {<<"2">>, <<"a", "\n", "b">>, NoneV}

\* a Document as read_string is given it: empty, with the syntax options of
\* the parser that fills it
NewDocument(cf) == [Blank("Document", 0) EXCEPT !.syntax = <<cf>>]

ParseInit ==
    /\ cfg \in Configs
    /\ heap = <<NewDocument(cfg)>>
    /\ text = <<>>
    /\ rd = ReadStart(1)
    /\ pc = "read"
    /\ last = NoCall
    /\ snap = <<>>

\* _read goes on from s = [h, r]: to `after` unless s.r.exc is set
Resume(s, after) ==
    /\ heap' = s.h
    /\ rd' = s.r
    /\ pc' = IF s.r.exc # NoExc THEN "raised" ELSE after

\* the for loop takes the next line of the stream
ReadNext ==
    /\ pc = "read"
    /\ Len(text) < MaxLines
    /\ \E line \in Lines :
         /\ text' = Append(text, line)
         /\ Resume(ReadLine(heap, rd, cfg, line), "read")
    /\ UNCHANGED <<cfg, last, snap>>

\* the stream is exhausted
EndOfInput ==
    /\ pc = "read"
    /\ Resume(ReadEnd(heap, rd, cfg), "done")
    /\ UNCHANGED <<cfg, text, last, snap>>

\* option.value = v with outcome r
Assigned(o, v, r) ==
    /\ heap' = r.h
    /\ last' = [op |-> "Option.value", exc |-> r.exc, target |-> o,
                arg |-> [NoArg EXCEPT !.value = v], n |-> 1, ret |-> <<>>]

\* after a successful parse the caller assigns option.value once
SetValue ==
    /\ pc = "done"
    /\ \E o \in Options(heap), v \in Values :
         Assigned(o, v, OptionSetValue(heap, o, v))
    /\ snap' = heap
    /\ pc' = "edited"
    /\ UNCHANGED <<cfg, text, rd>>

ParseNext == ReadNext \/ EndOfInput \/ SetValue

SpecParse == ParseInit /\ [][ParseNext]_vars

----------------------------------------------------------------------------
(* Editing: public calls on two parsed Documents *)

\* the texts the two Documents are read from
EditTexts ==
    { << <<"[", "s", "]", "\n">>, <<"#", " ", "c", "\n">>,
         <<"k", "=", "1", "\n">>, <<"#", " ", "c", "\n">> >>,
      << <<"[", "s", "]", "\n">>, <<"k", "=", "1", "\n">>,
         <<"j", "=", "2", "\n">>, <<"[", "t", "]", "\n">> >> }

\* the syntax options of the default constructor
DefaultConfig ==
    [ allow_no_value |-> FALSE,
      delimiters |-> {<<"=">>, <<":">>},
      comment_prefixes |-> {<<"#">>, <<";">>},
      inline_comment_prefixes |-> {},
      strict |-> TRUE,
      empty_lines_in_values |-> TRUE,
      space_around_delimiters |-> TRUE ]

\* the names, keys and comment text the calls are given
Names == {<<"s">>, <<"t">>}
Keys == {<<"k">>, <<"K">>, <<"j">>}
CommentText == <<"c">>

\* the lines io.StringIO(string) yields
RECURSIVE SplitLines(_)
SplitLines(s) ==
    IF s = <<>> THEN <<>>
    ELSE IF Find(s, NL, 0) = -1 THEN <<s>>
    ELSE <<SubSeq(s, 1, Find(s, NL, 0) + 1)>>
         \o SplitLines(SubSeq(s, Find(s, NL, 0) + 2, Len(s)))

\* read_string on a new Document, appended to the heap: [h, r]
ReadString(h, cf, lines) ==
    ReadLines(Append(h, NewDocument(cf)), ReadStart(Len(h) + 1), cf, lines)

\* the second Document is read after the first (s = [h, r]) from `other`
ReadSecond(s, other) ==
    /\ rd = s.r
    /\ heap = ReadString(s.h, DefaultConfig, other).h

EditInit ==
    /\ cfg = DefaultConfig
    /\ text \in EditTexts
    /\ \E other \in {<<>>, text} :
          ReadSecond(ReadString(<<>>, DefaultConfig, text), other)
    /\ pc = "edit"
    /\ last = NoCall
    /\ snap = heap

\* the caller is running and makes one more call
MayCall == pc = "edit" /\ last.n < MaxOps

\* a public call `op` on `target` with arguments `arg` and outcome r; the
\* exception a call raises is not caught, it ends the run
Call(op, target, arg, r) ==
    /\ Len(r.h) <= MaxHeap
    /\ heap' = r.h
    /\ snap' = heap
    /\ last' = [op |-> op, exc |-> r.exc, target |-> target, arg |-> arg,
                n |-> last.n + 1, ret |-> <<>>]
    /\ pc' = IF r.exc # "" THEN "failed" ELSE "edit"
    /\ UNCHANGED <<cfg, text, rd>>

\* the heap with one more object, as an argument expression constructs it
Fresh(obj) == Append(heap, obj)
FreshId == Len(heap) + 1

\* block.detach()
Detach ==
    /\ MayCall
    /\ \E b \in Blocks(heap) :
           Call("Block.detach", b, NoArg, BlockDetach(heap, b))

\* document.remove_section(name)
DocumentRemoveSection ==
    /\ MayCall
    /\ \E d \in Documents(heap), name \in Names :
           Call("Document.remove_section", d, [NoArg EXCEPT !.name = name],
                Ok(RemoveSection(heap, d, name)))

\* del document[name]
DocumentDelete ==
    /\ MayCall
    /\ \E d \in Documents(heap), name \in Names :
           Call("Document.__delitem__", d, [NoArg EXCEPT !.name = name],
                DocumentDelItem(heap, d, name))

\* document.remove_option(section, option)
DocumentRemoveOption ==
    /\ MayCall
    /\ \E d \in Documents(heap), name \in Names, key \in Keys :
           Call("Document.remove_option", d,
                [NoArg EXCEPT !.name = name, !.key = key],
                RemoveOption(heap, d, name, key))

\* del section[key]
SectionDelete ==
    /\ MayCall
    /\ \E s \in Sections(heap), key \in Keys :
           Call("Section.__delitem__", s, [NoArg EXCEPT !.key = key],
                SectionDelItem(heap, s, key))

\* document.add_section(name), document.add_section(block) with a Section or
\* another block
DocumentAddSection ==
    /\ MayCall
    /\ \E d \in Documents(heap) :
              \/ \E name \in Names :
                    Call("Document.add_section", d, [NoArg EXCEPT !.name = name],
                         AddSectionName(heap, d, name))
              \/ \E b \in Blocks(heap) :
                    Call("Document.add_section", d, [NoArg EXCEPT !.obj = b],
                         AddSectionArg(heap, d, b))

\* document[name] = section, with a section of the heap or Section(name)
DocumentAssign ==
    /\ MayCall
    /\ \E d \in Documents(heap), name \in Names :
           \/ \E sec \in Sections(heap) :
                 Call("Document.__setitem__", d,
                      [NoArg EXCEPT !.name = name, !.obj = sec],
                      DocumentSetItem(heap, d, name, sec))
           \/ \E n \in Names :
                 Call("Document.__setitem__", d,
                      [NoArg EXCEPT !.name = name, !.obj = FreshId],
                      DocumentSetItem(Fresh(NewSection(n)), d, name, FreshId))

\* section.add_option(option), with an option of the heap or Option(key, "2")
SectionAdd ==
    /\ MayCall
    /\ \E s \in Sections(heap) :
           \/ \E o \in Options(heap) :
                 Call("Section.add_option", s, [NoArg EXCEPT !.obj = o],
                      SectionAddOption(heap, s, o))
           \/ \E key \in Keys :
                 Call("Section.add_option", s,
                      [NoArg EXCEPT !.key = key, !.obj = FreshId],
                      SectionAddOption(Fresh(NewOption(key, <<"2">>, 0, <<"=">>, TRUE)),
                                       s, FreshId))

\* section[key] = value, with a str, None or an option of the heap
SectionAssign ==
    /\ MayCall
    /\ \E s \in Sections(heap), key \in Keys :
           \/ \E v \in Values :
                 Call("Section.__setitem__", s,
                      [NoArg EXCEPT !.key = key, !.value = v],
                      SectionSetItem(heap, s, key, v, 0))
           \/ \E o \in Options(heap) :
                 Call("Section.__setitem__", s,
                      [NoArg EXCEPT !.key = key, !.obj = o],
                      SectionSetItem(heap, s, key, NoneV, o))

\* section.set(key, value)
SectionSetCall ==
    /\ MayCall
    /\ \E s \in Sections(heap), key \in Keys, v \in Values :
           Call("Section.set", s, [NoArg EXCEPT !.key = key, !.value = v],
                SectionSet(heap, s, key, v))

\* document.set(section, key, value)
DocumentSetCall ==
    /\ MayCall
    /\ \E d \in Documents(heap), name \in Names, key \in Keys, v \in Values :
           Call("Document.set", d,
                [NoArg EXCEPT !.name = name, !.key = key, !.value = v],
                DocumentSet(heap, d, name, key, v))

\* section.name = name
SetName ==
    /\ MayCall
    /\ \E s \in Sections(heap), name \in Names :
           Call("Section.name", s, [NoArg EXCEPT !.name = name],
                Ok(SectionSetName(heap, s, name)))

\* option.key = key
SetKey ==
    /\ MayCall
    /\ \E o \in Options(heap), key \in Keys :
           Call("Option.key", o, [NoArg EXCEPT !.key = key],
                OptionSetKey(heap, o, key))

\* option.value = value
AssignValue ==
    /\ MayCall
    /\ \E o \in Options(heap), v \in Values :
           Call("Option.value", o, [NoArg EXCEPT !.value = v],
                OptionSetValue(heap, o, v))

\* block.add_before.comment(text), block.add_after.comment(text)
AddComment ==
    /\ MayCall
    /\ \E b \in Blocks(heap), after \in BOOLEAN :
           Call("BlockBuilder.comment", b,
                [NoArg EXCEPT !.idx = IF after THEN 1 ELSE 0],
                CommentAt(heap, BuilderAt(heap, b, after), CommentText))

\* block.add_before.space(1), block.add_after.space(1)
AddSpace ==
    /\ MayCall
    /\ \E b \in Blocks(heap), after \in BOOLEAN :
           Call("BlockBuilder.space", b,
                [NoArg EXCEPT !.idx = IF after THEN 1 ELSE 0],
                SpaceAt(heap, BuilderAt(heap, b, after), 1))

\* block.add_before.section(x), block.add_after.section(x), x a name or a
\* section of the heap
AddSection ==
    /\ MayCall
    /\ \E b \in Blocks(heap), after \in BOOLEAN :
           \/ \E name \in Names :
                 Call("BlockBuilder.section", b,
                      [NoArg EXCEPT !.name = name, !.idx = IF after THEN 1 ELSE 0],
                      SectionNameAt(heap, BuilderAt(heap, b, after), name))
           \/ \E sec \in Sections(heap) :
                 Call("BlockBuilder.section", b,
                      [NoArg EXCEPT !.obj = sec, !.idx = IF after THEN 1 ELSE 0],
                      SectionObjAt(heap, BuilderAt(heap, b, after), sec))

\* block.add_before.option(key, value), block.add_after.option(key, value)
AddOption ==
    /\ MayCall
    /\ \E b \in Blocks(heap), after \in BOOLEAN, key \in Keys, v \in Values :
           Call("BlockBuilder.option", b,
                [NoArg EXCEPT !.key = key, !.value = v,
                              !.idx = IF after THEN 1 ELSE 0],
                OptionAt(heap, BuilderAt(heap, b, after), key, v))

\* section.insert_at(idx).option(key, value), .comment(text), .space(1)
InsertAt ==
    /\ MayCall
    /\ \E s \in Sections(heap), idx \in 0..1 :
           \/ \E key \in Keys, v \in Values :
                 Call("Section.insert_at.option", s,
                      [NoArg EXCEPT !.key = key, !.value = v, !.idx = idx],
                      BuilderOption(heap, s, idx, key, v))
           \/ Call("Section.insert_at.comment", s, [NoArg EXCEPT !.idx = idx],
                   BuilderComment(heap, s, idx, CommentText))
           \/ Call("Section.insert_at.space", s, [NoArg EXCEPT !.idx = idx],
                   BuilderSpace(heap, s, idx, 1))

\* the calls of a chain
CommentCall == [kind |-> "comment", key |-> NoneV, value |-> CommentText]
SpaceCall == [kind |-> "space", key |-> NoneV, value |-> NoneV]
OptionCall(key, v) == [kind |-> "option", key |-> key, value |-> v]

\* the chains of two calls made on one builder
Chains ==
    {<<OptionCall(key, <<"2">>), CommentCall>> : key \in Keys}
    \cup {<<CommentCall, OptionCall(key, NoneV)>> : key \in Keys}
    \cup {<<OptionCall(key, <<"2">>), OptionCall(<<"j">>, NoneV)>> : key \in Keys}
    \cup {<<SpaceCall, CommentCall>>}

\* block.add_before.x(..).y(..), block.add_after.x(..).y(..)
AddChain ==
    /\ MayCall
    /\ \E b \in Blocks(heap), after \in BOOLEAN, calls \in Chains :
           Call("BlockBuilder.chain", b,
                [NoArg EXCEPT !.values = calls, !.idx = IF after THEN 1 ELSE 0],
                ChainAt(heap, BuilderAt(heap, b, after), calls))

\* section.insert_at(idx).x(..).y(..)
InsertChain ==
    /\ MayCall
    /\ \E s \in Sections(heap), idx \in 0..1, calls \in Chains :
           Call("Section.insert_at.chain", s,
                [NoArg EXCEPT !.values = calls, !.idx = idx],
                BuilderChain(Ok(heap), s, idx, calls))

\* a public read `op` of `target` with outcome r = [h, exc, ret]
Read(op, target, r) ==
    /\ heap' = r.h
    /\ snap' = heap
    /\ last' = [op |-> op, exc |-> r.exc, target |-> target, arg |-> NoArg,
                n |-> last.n + 1, ret |-> r.ret]
    /\ pc' = IF r.exc # "" THEN "failed" ELSE "edit"
    /\ UNCHANGED <<cfg, text, rd>>

\* block.container, block.container_idx, block.next_block, block.previous_block
Navigate ==
    /\ MayCall
    /\ \E b \in Blocks(heap) :
           \/ Read("Block.container", b, BlockContainer(heap, b))
           \/ Read("Block.container_idx", b, BlockContainerIdx(heap, b))
           \/ Read("Block.next_block", b,
                   BlockNext(b, BlockContainerIdx(heap, b)))
           \/ Read("Block.previous_block", b,
                   BlockPrevious(b, BlockContainerIdx(heap, b)))

\* option.key
ReadKey ==
    /\ MayCall
    /\ \E o \in Options(heap) : Read("Option.key.get", o, OptionKeyGet(heap, o))

\* copy.deepcopy(block)
DeepCopyCall ==
    /\ MayCall
    /\ \E b \in Blocks(heap) :
           /\ Len(DeepCopy(heap, b).h) <= MaxHeap
           /\ Read("copy.deepcopy", b, DeepCopy(heap, b))

\* a public read `op` of `target` with arguments arg and outcome r
ReadWith(op, target, arg, r) ==
    /\ heap' = r.h
    /\ snap' = heap
    /\ last' = [op |-> op, exc |-> r.exc, target |-> target, arg |-> arg,
                n |-> last.n + 1, ret |-> r.ret]
    /\ pc' = IF r.exc # "" THEN "failed" ELSE "edit"
    /\ UNCHANGED <<cfg, text, rd>>

\* section[key], document.has_option(name, key)
Lookup ==
    /\ MayCall
    /\ \E key \in Keys :
          \/ \E s \in Sections(heap) :
                ReadWith("Section.__getitem__", s, [NoArg EXCEPT !.key = key],
                         SectionGetItem(heap, s, key))
          \/ \E d \in Documents(heap), name \in Names :
                ReadWith("Document.has_option", d,
                         [NoArg EXCEPT !.name = name, !.key = key],
                         DocumentHasOption(heap, d, name, key))

\* document.clear(), section.clear()
ClearCall ==
    /\ MayCall
    /\ \E c \in Documents(heap) \cup Sections(heap) :
          Call("Container.clear", c, NoArg, Clear(heap, c))

\* what a container takes: a Document takes Sections, Comments and Spaces, a
\* Section takes Options, Comments and Spaces; a Section that would be copied
\* is left out (the copy shares the child list of the original)
Takes(h, c, b) ==
    /\ h[c].kind \in {"Document", "Section"}
    /\ h[b].kind # "Document"
    /\ h[b].kind = "Section" => h[c].kind = "Document"
    /\ h[b].kind = "Option" => h[c].kind = "Section"
    /\ h[b].kind = "Section" => (Eq(h, h[b].container, c) \/ ~IsAttached(h, b))

\* container.append(block)
Append_ ==
    /\ MayCall
    /\ \E c \in 1..Len(heap), b \in Blocks(heap) :
           /\ Takes(heap, c, b)
           /\ Call("Container.append", c, [NoArg EXCEPT !.obj = b],
                   Ok(ContainerAppend(heap, c, b)))

\* container.insert(idx, block)
Insert ==
    /\ MayCall
    /\ \E c \in 1..Len(heap), b \in Blocks(heap), idx \in 0..1 :
           /\ Takes(heap, c, b)
           /\ Call("Container.insert", c, [NoArg EXCEPT !.obj = b, !.idx = idx],
                   Ok(ContainerInsert(heap, c, idx, b)))

Next ==
    \/ Detach
    \/ Navigate
    \/ ReadKey
    \/ AddChain
    \/ InsertChain
    \/ DocumentRemoveSection
    \/ DocumentDelete
    \/ DocumentRemoveOption
    \/ SectionDelete
    \/ DocumentAddSection
    \/ DocumentAssign
    \/ SectionAdd
    \/ SectionAssign
    \/ SectionSetCall
    \/ DocumentSetCall
    \/ SetName
    \/ SetKey
    \/ AssignValue
    \/ AddComment
    \/ AddSpace
    \/ AddSection
    \/ AddOption
    \/ InsertAt
    \/ Append_
    \/ Insert
    \/ DeepCopyCall
    \/ Lookup
    \/ ClearCall

Spec == EditInit /\ [][Next]_vars

----------------------------------------------------------------------------
(* Values: the value API of the Options of a parsed Document *)

MaxValueOps == 2   \* calls of the value API in one run

\* the texts read: a single value, a value that starts on the next line, a
\* comma separated value, a key without a value, such a key followed by an
\* indented line, a value with a continuation line
ValueTexts ==
    { << <<"[", "s", "]", "\n">>, <<"k", "=", "1", "\n">> >>,
      << <<"[", "s", "]", "\n">>, <<"k", "=", "\n">>,
         <<" ", " ", "a", "\n">>, <<" ", " ", "b", "\n">> >>,
      << <<"[", "s", "]", "\n">>, <<"k", "=", "a", ",", " ", "b", "\n">> >>,
      << <<"[", "s", "]", "\n">>, <<"k", "\n">> >>,
      << <<"[", "s", "]", "\n">>, <<"k", "\n">>, <<" ", " ", "x", "\n">> >>,
      << <<"[", "s", "]", "\n">>, <<"k", "=", "1", "\n">>,
         <<" ", " ", "x", "\n">> >> }

\* the arguments of the calls
ValueArgs == {<<"2">>, NoneV}
ValueKeys == {<<"k">>, <<"n">>}
ValueLists == {<<<<"a">>>>, <<<<"a">>, <<"#", "c">>>>}
Separators == {NL, <<",", " ">>}
AppendArg == <<"z">>

\* the Document is read without an exception; the caller also holds an Option
\* constructed without a value and one constructed with a value
ValueRead(s) ==
    /\ s.r.exc = NoExc
    /\ rd = s.r
    /\ heap = s.h \o << NewOption(<<"n">>, NoneV, 0, <<"=">>, TRUE),
                        NewOption(<<"n">>, <<"1">>, 0, <<"=">>, TRUE) >>

ValueInit ==
    /\ cfg \in {DefaultConfig, [DefaultConfig EXCEPT !.allow_no_value = TRUE]}
    /\ text \in ValueTexts
    /\ ValueRead(ReadString(<<>>, cfg, text))
    /\ pc = "value"
    /\ last = NoCall
    /\ snap = heap

\* the caller is running and makes one more call of the value API
MayCallValue == pc = "value" /\ last.n < MaxValueOps

\* a call `op` on `target` with outcome r = [h, exc, ret]
CallRet(op, target, arg, r) ==
    /\ heap' = r.h
    /\ snap' = heap
    /\ last' = [op |-> op, exc |-> r.exc, target |-> target, arg |-> arg,
                n |-> last.n + 1, ret |-> r.ret]
    /\ pc' = IF r.exc # "" THEN "failed" ELSE "value"
    /\ UNCHANGED <<cfg, text, rd>>

\* option.value
GetValue ==
    /\ MayCallValue
    /\ \E o \in Options(heap) :
          CallRet("Option.value.get", o, NoArg,
                  OptionValue(OptionJoin(heap, o), o))

\* option.as_list(separator)
GetList ==
    /\ MayCallValue
    /\ \E o \in Options(heap), sep \in Separators :
          CallRet("Option.as_list", o, [NoArg EXCEPT !.separator = sep],
                  AsList(heap, o, sep))

\* option.value = value
PutValue ==
    /\ MayCallValue
    /\ \E o \in Options(heap), v \in ValueArgs :
          CallRet("Option.value", o, [NoArg EXCEPT !.value = v],
                  NoRet(OptionSetValue(heap, o, v)))

\* section.set(key, value)
PutOption ==
    /\ MayCallValue
    /\ \E s \in Sections(heap), key \in ValueKeys, v \in ValueArgs :
          CallRet("Section.set", s, [NoArg EXCEPT !.key = key, !.value = v],
                  NoRet(SectionSet(heap, s, key, v)))

\* option.set_values(values, prepend_newline=...); ret is the caller's list
\* after the call
PutValues ==
    /\ MayCallValue
    /\ \E o \in Options(heap), vs \in ValueLists, prepend \in BOOLEAN :
          CallRet("Option.set_values", o,
                  [NoArg EXCEPT !.values = vs,
                                !.idx = IF prepend THEN 1 ELSE 0],
                  Ret(SetValues(heap, o, vs, NL, prepend), vs))

\* option.append(value), option.append(value, separator=", ")
AppendValue ==
    /\ MayCallValue
    /\ \E o \in Options(heap), sep \in {NoneV, <<",", " ">>} :
          CallRet("Option.append", o,
                  [NoArg EXCEPT !.value = AppendArg, !.separator = sep],
                  NoRet(OptionAppend(heap, o, AppendArg, sep)))

\* option.key = key
PutKey ==
    /\ MayCallValue
    /\ \E o \in Options(heap), key \in ValueKeys :
          CallRet("Option.key", o, [NoArg EXCEPT !.key = key],
                  NoRet(OptionSetKey(heap, o, key)))

\* section.to_dict()
GetDict ==
    /\ MayCallValue
    /\ \E s \in Sections(heap) :
          CallRet("Section.to_dict", s, NoArg, NoRet(SectionToDict(heap, s)))

ValueNext ==
    \/ GetValue
    \/ GetList
    \/ PutValue
    \/ PutOption
    \/ PutValues
    \/ AppendValue
    \/ PutKey
    \/ GetDict

SpecValue == ValueInit /\ [][ValueNext]_vars

----------------------------------------------------------------------------
(* Properties of read_string followed by str(document) *)

\* the blocks of the tree under b, in the order their text is rendered
RECURSIVE Flat(_, _)
RECURSIVE FlatAll(_, _)
FlatAll(h, ids) ==
    IF ids = <<>> THEN <<>> ELSE Flat(h, Head(ids)) \o FlatAll(h, Tail(ids))
Flat(h, b) ==
    CASE h[b].kind = "Document" -> FlatAll(h, h[b].structure)
      [] h[b].kind = "Section" -> <<b>> \o FlatAll(h, h[b].structure)
      [] OTHER -> <<b>>

\* the text block b itself contributes to the rendering
Own(h, b) == IF h[b].kind = "Section" THEN SectionHead(h, b) ELSE Str(h, b)

\* the texts of the blocks ids, in order
OwnTexts(h, ids) == [i \in DOMAIN ids |-> Own(h, ids[i])]

\* C1: a Document that was parsed without an exception and not mutated
\* renders as exactly the input text, under every syntax configuration
C1_RoundTrip == pc = "done" => Str(heap, rd.doc) = Concat(text)

HeaderName(line) ==
    IF line[1] = "[" /\ \E i \in DOMAIN line : line[i] = "]"
    THEN SubSeq(line, 2, Min({i \in DOMAIN line : line[i] = "]"}) - 1)
    ELSE NoneV

\* the option name in a line that starts in the first column: the text before
\* the delimiter, or the whole line when a name may stand without a value
OptionName(cf, line) ==
    IF line[1] \in {"[", " ", "#", ";", "\n"} THEN NoneV
    ELSE IF \E i \in DOMAIN line : line[i] \in {"=", ":"}
    THEN SubSeq(line, 1, Min({i \in DOMAIN line : line[i] \in {"=", ":"}}) - 1)
    ELSE IF cf.allow_no_value THEN SubSeq(line, 1, Len(line) - 1)
    ELSE NoneV

\* the lines of seen after its last section header ( <<>> when it has none)
InCurrentSection(seen) ==
    IF \E i \in DOMAIN seen : HeaderName(seen[i]) # NoneV
    THEN SubSeq(seen, Max({i \in DOMAIN seen : HeaderName(seen[i]) # NoneV}) + 1,
                Len(seen))
    ELSE <<>>

\* line is a header with a name that a header of seen has
RepeatsSection(seen, line) ==
    /\ HeaderName(line) # NoneV
    /\ \E i \in DOMAIN seen : HeaderName(seen[i]) = HeaderName(line)

\* line is an option with a name that an option of the current section has
RepeatsOption(cf, seen, line) ==
    /\ OptionName(cf, line) # NoneV
    /\ \E i \in DOMAIN InCurrentSection(seen) :
          OptionName(cf, InCurrentSection(seen)[i]) = OptionName(cf, line)

C9_NormalizedKeysUnique ==
    pc = "done" =>
        \A s \in Sections(heap) :
            \A i, j \in OptionPositions(heap, s) :
                i # j => Optionxform(heap[heap[s].structure[i]].name)
                            # Optionxform(heap[heap[s].structure[j]].name)

----------------------------------------------------------------------------
(* Properties of the tree under public edit calls *)

\* the positions of container c's child list that hold the object b
Holds(h, c, b) == {i \in DOMAIN h[c].structure : h[c].structure[i] = b}

\* every place <<container, position>> that holds the object b
Places(h, b) ==
    {p \in (1..Len(h)) \X (1..Len(h)) : p[2] \in Holds(h, p[1], b)}

\* C3: every block is in the child list of at most one container and at most
\* once in that list, whatever calls were made
C3_AttachExclusivity ==
    \A b \in Blocks(heap) : Cardinality(Places(heap, b)) <= 1

\* C4: a block's back-pointer names container c exactly when the block is in
\* c's child list, so that a removed block has no container
C4_BackPointer ==
    \A b \in Blocks(heap) : \A c \in 1..Len(heap) :
        heap[b].container = c <=> Holds(heap, c, b) # {}

\* the block after / before position i of the child list st (0: none)
After(st, i) == IF i < Len(st) THEN st[i + 1] ELSE 0
Before(st, i) == IF i > 1 THEN st[i - 1] ELSE 0

\* C5: for a block at position i of its container's child list next_block and
\* previous_block are the blocks at i+1 and i-1, also when a sibling has the
\* same text; and detach() removes the block itself from the list
C5_OwnPosition ==
    /\ \A b \in Blocks(heap) :
          heap[b].container # 0 =>
              \A i \in Holds(heap, heap[b].container, b) :
                  /\ NextBlock(heap, b) = After(heap[heap[b].container].structure, i)
                  /\ PreviousBlock(heap, b)
                        = Before(heap[heap[b].container].structure, i)
    /\ (last.op = "Block.detach" /\ last.exc = "") =>
          \E i \in Holds(snap, snap[last.target].container, last.target) :
              heap[snap[last.target].container].structure
                  = DelAt(snap[snap[last.target].container].structure, i)

\* C6: no two Section children of a Document have the same name
C6_UniqueSectionNames ==
    \A d \in Documents(heap) : \A name \in Names :
        Cardinality(SectionPositions(heap, d, name)) <= 1

\* C7: no two Option children of a Section have the same normalized key
C7_UniqueOptionKeys ==
    \A s \in Sections(heap) : \A i, j \in OptionPositions(heap, s) :
        i # j => Optionxform(heap[heap[s].structure[i]].name)
                    # Optionxform(heap[heap[s].structure[j]].name)

\* the calls that assign one value to an option
SingleValueOps ==
    {"Option.value", "Section.__setitem__", "Section.set", "Document.set",
     "BlockBuilder.option", "Section.insert_at.option"}

\* every object the caller had before the call is as it was
SameObjects == Len(heap) >= Len(snap) /\ \A i \in 1..Len(snap) : heap[i] = snap[i]

\* C10: a single-value assignment of a string with a newline in it, on a
\* target for which the call is otherwise valid, raises
\* AssignMultilineValueError and leaves every block as it was
C10_MultilineRejected ==
    ( /\ last.op \in SingleValueOps
      /\ IsMultiLine(last.arg.value)
      /\ last.exc \in {"", "AssignMultilineValueError"} ) =>
        (last.exc = "AssignMultilineValueError" /\ SameObjects)

\* the positions of section s whose Option has the normalized key of `key`
KeyPositions(h, s, key) ==
    {i \in OptionPositions(h, s) :
        Optionxform(h[h[s].structure[i]].name) = Optionxform(key)}

\* every object of snap but those of the set `but` is as it was
SameBut(but) == \A i \in 1..Len(snap) : i \in but \/ heap[i] = snap[i]

\* the object as it was, with another value
Revalued(o, v) ==
    [snap[o] EXCEPT !.value = v, !.values = <<v>>, !.updated = TRUE,
                    !.joined = TRUE]

----------------------------------------------------------------------------
(* Properties of the value API *)

\* the Options read from the text with a value line (key, delimiter, value)
\* that no call has modified
Parsed(h, o) ==
    /\ h[o].kind = "Option"
    /\ ~Updated(h, o)
    /\ Contains(h[o].lines[1], <<"=">>)

\* the fragments of such an Option: what follows the delimiter on its first
\* line, and its other lines, trimmed
Fragments(h, o) ==
    [i \in DOMAIN h[o].lines |->
        IF i = 1
        THEN Strip(SubSeq(h[o].lines[1], Find(h[o].lines[1], <<"=">>, 0) + 2,
                          Len(h[o].lines[1])))
        ELSE Strip(h[o].lines[i])]

\* a list without its empty strings at the start and at the end; a list of
\* empty strings only becomes one empty string
Inner(l) ==
    IF \A i \in DOMAIN l : l[i] = <<>> THEN << <<>> >>
    ELSE SubSeq(l, Min({i \in DOMAIN l : l[i] # <<>>}),
                   Max({i \in DOMAIN l : l[i] # <<>>}))

ValueOf(h, o) == OptionValue(OptionJoin(h, o), o)

\* the trimmed pieces of a value split on a separator, none for no value
Pieces(v, separator) ==
    IF v = NoneV THEN <<>> ELSE StripEach(Split(Strip(v), separator))

\* C13: where value() returns, as_list(separator) does not raise, and it
\* returns the trimmed pieces of value() split on the separator, the empty
\* list exactly when value() is absent
C13_AsListFollowsValue ==
    \A o \in Options(heap), sep \in Separators :
        ValueOf(heap, o).exc = ""
           => /\ AsList(heap, o, sep).exc = ""
              /\ AsList(heap, o, sep).ret = Pieces(ValueOf(heap, o).ret, sep)
              /\ (AsList(heap, o, sep).ret = <<>>)
                     <=> (ValueOf(heap, o).ret = NoneV)

\* the separator option.append used
UsedSeparator(arg) == IF arg.separator = NoneV THEN NL ELSE arg.separator

\* C14: option.append(v, separator=s) does not raise, and it makes as_list(s)
\* the pieces value() held before the call followed by v
KeepsOnAppend ==
    last'.op = "Option.append" /\ ValueOf(heap, last'.target).exc = ""
       => /\ last'.exc = ""
          /\ AsList(heap', last'.target, UsedSeparator(last'.arg)).ret
                 = Append(Pieces(ValueOf(heap, last'.target).ret,
                                 UsedSeparator(last'.arg)),
                          last'.arg.value)
C14_AppendKeeps == [][KeepsOnAppend]_vars

\* the Document read again from what it renders, with the same syntax options
ReadAgain(h) == ReadString(<<>>, cfg, SplitLines(Str(h, rd.doc)))

\* the Option o of h (in a Section of the Document) is in p too: same section
\* name, same key, and as_list() there returns vs
FoundAgain(h, o, p, vs) ==
    \E q \in Options(p) :
        /\ ~KeyRaises(p, q)
        /\ p[p[q].container].name = h[h[o].container].name
        /\ OptionKey(p, q) = OptionKey(h, o)
        /\ AsList(p, q, NL).exc = ""
        /\ AsList(p, q, NL).ret = vs

\* the rendered Option o has one line per value after the line of the key
\* (prepend_newline) or the first value on the line of the key, and each of
\* these lines is indented
OwnLines(h, o, vs, prepend_newline) ==
    LET ls == SplitLines(OptionStr(h, o))
        off == IF prepend_newline THEN 1 ELSE 0
    IN  /\ Len(ls) = Len(vs) + off
        /\ \A i \in 1..Len(vs) :
              /\ i + off > 1 => /\ ls[i + off][1] = " "
                                /\ Strip(ls[i + off]) = vs[i]
              /\ i + off = 1 => EndsWith(RStrip(ls[1]), vs[1])

\* C15: set_values(vs) on an Option of a Section of the Document leaves the
\* caller's list as it was, renders each value on its own indented line, and
\* the rendered Document read again has an option with the same key whose
\* as_list() is vs
RoundTripOnSetValues ==
    last'.op = "Option.set_values" /\ ~KeyRaises(heap, last'.target)
       => /\ last'.exc = ""
          /\ last'.ret = last'.arg.values
          /\ OwnLines(heap', last'.target, last'.arg.values, last'.arg.idx = 1)
          /\ ReadAgain(heap').r.exc = NoExc
          /\ FoundAgain(heap', last'.target, ReadAgain(heap').h,
                        last'.arg.values)
C15_SetValuesRoundTrip == [][RoundTripOnSetValues]_vars

\* the calls that set an option without a value
SetsNone(l) == l.op \in {"Option.value", "Section.set"} /\ l.arg.value = NoneV

\* the Document that owns the Option o allows options without a value
AllowsNoValue(h, o) == h[DocumentOf(h, o)].syntax[1].allow_no_value

ThroughContainer ==
    {"Block.container", "Block.container_idx", "Block.next_block",
     "Block.previous_block", "Block.detach", "BlockBuilder.comment",
     "BlockBuilder.space", "BlockBuilder.section", "BlockBuilder.option"}

\* C17: on a block without a container, container, container_idx,
\* next_block, previous_block, add_before, add_after and detach() raise
\* NotAttachedError; so does key on an Option without a Section or whose
\* Section has no Document; every object is left as it was
C17_DetachedRaises ==
    /\ last.op \in ThroughContainer /\ snap[last.target].container = 0
          => last.exc = "NotAttachedError" /\ SameObjects
    /\ last.op = "Option.key.get" /\ KeyRaises(snap, last.target)
          => last.exc = "NotAttachedError" /\ SameObjects

\* container was read on a block that an earlier call had detached
C17_Witness ==
    /\ last.op = "Block.container"
    /\ last.n = 2
    /\ heap[last.target].container = 0
    /\ last.exc = "NotAttachedError"
\* key was read on an Option whose Section had been detached
C17_WitnessKey ==
    /\ last.op = "Option.key.get"
    /\ heap[last.target].container # 0
    /\ heap[heap[last.target].container].container = 0
    /\ last.exc = "NotAttachedError"

\* the container a chain inserts into, and the index (as Python counts it)
\* the claim gives its first block: idx for insert_at(idx), the position of
\* the anchor block itself for add_before, one more for add_after
ChainContainer ==
    IF last.op = "Section.insert_at.chain" THEN last.target
    ELSE snap[last.target].container
ChainIdx ==
    IF last.op = "Section.insert_at.chain" THEN last.arg.idx
    ELSE Min(Holds(snap, ChainContainer, last.target)) - 1 + last.arg.idx

\* a chain of two calls was made and returned, from a valid index or from an
\* anchor that is in its container's child list
Chained ==
    /\ last.op \in {"Section.insert_at.chain", "BlockBuilder.chain"}
    /\ last.exc = ""
    /\ IF last.op = "Section.insert_at.chain"
       THEN last.arg.idx <= Len(snap[last.target].structure)
       ELSE Holds(snap, ChainContainer, last.target) # {}

\* C18: the blocks of chained builder calls are consecutive siblings in call
\* order, the first at index i (the anchor's index for add_before, that
\* index + 1 for add_after); the blocks already there keep their order
C18_BuilderOrder ==
    Chained =>
        heap[ChainContainer].structure
            = ListInsert(ListInsert(snap[ChainContainer].structure,
                                    ChainIdx, Len(snap) + 1),
                         ChainIdx + 1, Len(snap) + 2)

\* the name of the section the last call was given, as a name or as an object
GivenName ==
    IF last.arg.obj # 0 THEN heap[last.arg.obj].name ELSE last.arg.name

\* every Document renders as before the call and every object is as it was
NothingChanged ==
    /\ SameObjects
    /\ \A d \in Documents(snap) : Str(heap, d) = Str(snap, d)

\* the Document d of h has a Section called name
Named(h, d, name) ==
    \E i \in DOMAIN h[d].structure :
        h[h[d].structure[i]].kind = "Section" /\ h[h[d].structure[i]].name = name

\* the Section s is a child of the Document that is its container
InDocument(h, s) ==
    /\ h[s].container # 0
    /\ h[h[s].container].kind = "Document"
    /\ Holds(h, h[s].container, s) # {}

\* C19: whatever calls were made before, a builder call option(key) for a key
\* of the section raises DuplicateOptionError, section(name) for a name of the
\* Document raises DuplicateSectionError, option() on a Document and
\* section() in a Section raise ValueError, and each leaves every object as
\* it was
C19_RejectedBuilderCall ==
    /\ \A c \in Sections(heap), key \in Keys, idx \in 0..1 :
          InDocument(heap, c) /\ KeyPositions(heap, c, key) # {}
             => BuilderOption(heap, c, idx, key, <<"2">>)
                    = Fail(heap, "DuplicateOptionError")
    /\ \A d \in Documents(heap), name \in Names :
          Named(heap, d, name)
             => BuilderSectionName(heap, d, 0, name)
                    = Fail(heap, "DuplicateSectionError")
    /\ \A d \in Documents(heap), key \in Keys :
          BuilderOption(heap, d, 0, key, <<"2">>) = Fail(heap, "ValueError")
    /\ \A c \in Sections(heap), name \in Names :
          BuilderSectionName(heap, c, 0, name) = Fail(heap, "ValueError")

\* the Section add_section was given, or made of the name it was given
GivenSection == IF last.arg.obj # 0 THEN last.arg.obj ELSE Len(snap) + 1

\* add_section returned: the section is the last child of the Document, the
\* Document is its container and the children before it are as they were
Added ==
    /\ last.exc = ""
    /\ heap[last.target].structure
           = Append(snap[last.target].structure, GivenSection)
    /\ heap[GivenSection].container = last.target
    /\ \A b \in 1..Len(snap) : b \notin {last.target, GivenSection}
                                   => heap[b] = snap[b]

\* add_section was given a name or a Section with a name of the Document, or
\* something that is neither a str nor a Section
Rejected ==
    IF last.arg.obj # 0 /\ snap[last.arg.obj].kind # "Section"
    THEN last.exc = "ValueError" /\ NothingChanged
    ELSE last.exc = "DuplicateSectionError" /\ NothingChanged

AttachedElsewhere ==
    /\ last.arg.obj # 0
    /\ snap[last.arg.obj].container \notin {0, last.target}

Copied(l) == l.op = "copy.deepcopy" /\ l.exc = ""
CloneTree(h, c) == {c} \cup {h[c].structure[i] : i \in DOMAIN h[c].structure}

\* the clone that deepcopy returned is detached, renders as the original and
\* is the container of its own blocks
CopiedWell(h, l) ==
    l.op = "copy.deepcopy" =>
        /\ l.exc = ""
        /\ BlockContainer(h, l.ret[1]).exc = "NotAttachedError"
        /\ Str(h, l.ret[1]) = Str(h, l.target)
        /\ Len(h[l.ret[1]].structure) = Len(h[l.target].structure)
        /\ \A i \in DOMAIN h[l.ret[1]].structure :
              /\ h[h[l.ret[1]].structure[i]].container = l.ret[1]
              /\ h[l.ret[1]].structure[i] \notin CloneTree(h, l.target)

\* the call after a copy: a call on the clone or on one of its blocks leaves
\* the text of the original as it was, any other call leaves the text of
\* the clone as it was
CopyIndependent ==
    Copied(last) =>
        IF last'.target \in CloneTree(heap, last.ret[1])
        THEN Str(heap', last.target) = Str(heap, last.target)
        ELSE Str(heap', last.ret[1]) = Str(heap, last.ret[1])

\* C21: copy.deepcopy of a block gives a detached clone that renders the
\* same text as the original and whose blocks have the clone as their
\* container; a later mutation of the clone leaves the text of the original
\* unchanged and a mutation of the original leaves the clone unchanged.
C21_DeepCopyIndependence ==
    [][CopiedWell(heap', last') /\ CopyIndependent]_vars

----------------------------------------------------------------------------
(* Properties of Parser._read, line by line *)

\* the semantic content of a line: what is left of it without its comment
Content(cf, line) ==
    LET cs == CommentStart(line, cf,
                  InlineScan(line, {<<p, -1>> : p \in cf.inline_comment_prefixes},
                             maxsize))
    IN  Strip(IF cs = -1 THEN line ELSE SubSeq(line, 1, cs))

\* the line goes on the value of the option that is open in frame r
Continues(r, line) == IsOpen(r) /\ FirstNonSpace(line) - 1 > r.indent_level

\* the line is an indented comment
IndentedComment(cf, line) ==
    FirstNonSpace(line) <= Len(line) /\ <<line[FirstNonSpace(line)]>> \in cf.comment_prefixes

\* inside a section, the line is neither a section header nor an option line
\* (nor blank, a comment or a continuation)
Malformed(r, cf, line) ==
    /\ Content(cf, line) # <<>>
    /\ ~Continues(r, line)
    /\ r.cursect
    /\ SectClose(Content(cf, line)) = 0
    /\ ~OptMatch(Content(cf, line), cf).match
    /\ ~IndentedComment(cf, line)

IsPrefix(s, t) == Len(s) <= Len(t) /\ SubSeq(t, 1, Len(s)) = s

\* one step of the parser: a malformed line is recorded with its number and
\* text and the scan goes on; the lines recorded stay recorded, in order; the
\* end of the input raises ParsingError when lines were recorded, and
\* ParsingError is raised by nothing else
AggregatesErrors ==
    /\ pc = "read" /\ text' # text /\ Malformed(rd, cfg, text'[Len(text')]) =>
          /\ pc' = "read"
          /\ rd'.e = Append(rd.e, <<Len(text'), text'[Len(text')]>>)
    /\ pc = "read" => IsPrefix(rd.e, rd'.e)
    /\ pc = "read" /\ text' = text /\ rd.e # <<>> =>
          /\ pc' = "raised"
          /\ rd'.exc.type = "ParsingError"
          /\ rd'.e = rd.e
    /\ pc = "read" /\ pc' = "raised" /\ rd'.exc.type = "ParsingError" =>
          text' = text /\ rd.lineno = Len(text)

IsOptionLine(cf, line) ==
    /\ Content(cf, line) # <<>>
    /\ SectClose(Content(cf, line)) = 0
    /\ OptMatch(Content(cf, line), cf).match

\* the last line of the last block of the Document d
LastLineOf(h, d) == h[LastBlock(h, d)].lines[Len(h[LastBlock(h, d)].lines)]

\* the line was put into a block of class kind that is a child of Document d
KeptIn(h, d, kind, line) ==
    /\ LastBlock(h, d) # 0
    /\ h[LastBlock(h, d)].kind = kind
    /\ h[LastBlock(h, d)].container = d
    /\ LastLineOf(h, d) = line

\* one step of the parser before the first section header
BeforeFirstHeader ==
    pc = "read" /\ text' # text /\ ~rd.cursect =>
        LET line == text'[Len(text')]
        IN  /\ IsOptionLine(cfg, line) =>
                  /\ pc' = "raised"
                  /\ rd'.exc = [type |-> "MissingSectionHeaderError",
                                lineno |-> Len(text')]
                  /\ rd'.e = <<>>
                  /\ heap' = heap
            /\ Strip(line) = <<>> =>
                  pc' = "read" /\ KeptIn(heap', rd.doc, "Space", line)
            /\ IsFullLineComment(line, cfg) =>
                  pc' = "read" /\ KeptIn(heap', rd.doc, "Comment", line)

\* C23: an option line before any section header makes the parse raise
\* MissingSectionHeaderError at once, with the number of that line; blank
\* lines and full-line comments before the first section header do not raise
\* and are kept as Space and Comment children of the Document.
C23_MissingSectionHeader == [][BeforeFirstHeader]_vars

\* a blank line and a comment were kept in the Document, then an option line
\* raised MissingSectionHeaderError at line 3
C23_Witness ==
    /\ pc = "raised"
    /\ rd.exc = [type |-> "MissingSectionHeaderError", lineno |-> 3]
    /\ Len(heap[rd.doc].structure) = 2
    /\ IsOptionLine(cfg, text[3])

\* C24: when a parse that fills a Document given by the caller raises
\* (ParsingError, DuplicateSectionError, DuplicateOptionError,
\* MissingSectionHeaderError), the Document is as it was before the call:
\* the blocks of the lines read before the error are not in it.
C24_NoPartialDocument ==
    pc = "raised" =>
        /\ heap[rd.doc] = NewDocument(cfg)
        /\ Str(heap, rd.doc) = <<>>

----------------------------------------------------------------------------
(* Properties of lookups *)

\* the Options of section s whose normalized key is the normalized k
WithKey(h, s, k) ==
    {h[s].structure[i] : i \in {j \in OptionPositions(h, s) :
        Optionxform(h[h[s].structure[j]].name) = Optionxform(k)}}

\* section[k] on a Section that has a container
LooksUp(h, s, k) ==
    LET r == SectionGetItem(h, s, k)
    IN  IF WithKey(h, s, k) = {} THEN r.exc = "KeyError"
        ELSE r.exc = "" /\ r.ret[1] \in WithKey(h, s, k)

\* document.has_option(name, k) against document[name][k]
HasOptionAgrees(h, d, name, k) ==
    LET r == DocumentHasOption(h, d, name, k)
    IN  /\ r.exc = ""
        /\ r.ret[1] = /\ HasSection(h, d, name)
                      /\ SectionGetItem(h, GetSection(h, d, name), k).exc = ""

\* the raw key of an Option that renders its own lines is written in them
KeepsSpelling(h, o) ==
    ~Updated(h, o) => StartsWith(LStrip(h[o].lines[1]), h[o].name)

\* C25: section[k] returns the Option whose normalized key equals the
\* normalized k, for every spelling of k, and raises KeyError when there is
\* none; Document.has_option(name, k) is true exactly when document[name][k]
\* succeeds and false when no section has the name; the raw key of an Option
\* keeps the spelling of the input.
C25_LookupByNormalizedKey ==
    /\ \A s \in Sections(heap), k \in Keys :
          heap[s].container # 0 => LooksUp(heap, s, k)
    /\ \A d \in Documents(heap), name \in Names, k \in Keys :
          HasOptionAgrees(heap, d, name, k)
    /\ \A o \in Options(heap) : KeepsSpelling(heap, o)

----------------------------------------------------------------------------
(* Properties of the values the parser leaves *)

\* C26: for every Option of a Document that the parser returned without
\* error, under any syntax configuration, reading the value returns a str or
\* None and does not raise, and to_dict() of every Section succeeds.
C26_ValueNeverFails ==
    pc = "done" =>
        /\ \A o \in Options(heap) : ValueOf(heap, o).exc = ""
        /\ \A s \in Sections(heap) : SectionToDict(heap, s).exc = ""

----------------------------------------------------------------------------
(* Properties of clear() and of item assignment *)

\* C27: after Document.clear() or Section.clear() the child list of the
\* container is empty and every block that was in it is detached; the call
\* does not raise.
C27_ClearDetaches ==
    last.op = "Container.clear" =>
        /\ last.exc = ""
        /\ heap[last.target].structure = <<>>
        /\ \A i \in DOMAIN snap[last.target].structure :
              heap[snap[last.target].structure[i]].container = 0

\* C28: when section[key] = option or document[name] = section raises
\* AlreadyAttachedError or ValueError, the target container is unchanged:
\* its child list is as it was and its children are still attached to it.
C28_SetItemAllOrNothing ==
    /\ last.op \in {"Section.__setitem__", "Document.__setitem__"}
    /\ last.arg.obj # 0
    /\ last.exc \in {"AlreadyAttachedError", "ValueError"}
    => /\ heap[last.target].structure = snap[last.target].structure
       /\ \A i \in DOMAIN snap[last.target].structure :
             heap[snap[last.target].structure[i]].container
                = snap[snap[last.target].structure[i]].container

\* the Space blocks of a heap
SpaceBlocks(h) == {i \in 1..Len(h) : h[i].kind = "Space"}

\* no line of the Space b has content
OnlyBlank(h, b) == \A i \in DOMAIN h[b].lines : Strip(h[b].lines[i]) = <<>>

\* the content of every line after the first of Option o is in its value
InValue(h, o) ==
    \A i \in 2..Len(h[o].lines) :
        Contains(ValueOf(h, o).ret, Strip(h[o].lines[i]))

\* C29: after a successful parse with empty_lines_in_values no Space holds a
\* line with content: the continuation lines of a value, also those after
\* blank lines or comment lines inside the value, are lines of the Option
\* and part of its value, and only blank lines stay in a Space.
C29_NoValueInSpace ==
    pc = "done" /\ cfg.empty_lines_in_values =>
        /\ \A b \in SpaceBlocks(heap) : OnlyBlank(heap, b)
        /\ \A o \in Options(heap) : ValueOf(heap, o).exc = "" => InValue(heap, o)

----------------------------------------------------------------------------
(* Properties of continuation lines *)

\* the Option that is open: the last Option of the last Section of Document d
OpenOption(h, d) ==
    LET s == LastBlock(h, d)
    IN  h[s].structure[Max(OptionPositions(h, s))]

\* a section and an option are open in frame r, and no blank line has ended
\* the value
ValueOpen(r) == IsOpen(r) /\ r.indent_level # maxsize

\* the indentation of a line: the column of its first non-space character
Indent(line) == FirstNonSpace(line) - 1

\* the step took the line as a continuation: no block was made for it and no
\* error recorded, and it is the last line of the last block of the section
TakenAsContinuation(line) ==
    /\ pc' = "read"
    /\ rd'.e = rd.e
    /\ Len(heap') = Len(heap)
    /\ LET b == LastBlock(heap', LastBlock(heap', rd.doc))
       IN  /\ heap'[b].kind \in {"Option", "Space"}
           /\ heap'[b].lines # <<>>
           /\ heap'[b].lines[Len(heap'[b].lines)] = line

\* one step of the parser on a line with content that is not a comment,
\* while an option is open
ContinuationRule ==
    /\ pc = "read"
    /\ text' # text
    /\ ValueOpen(rd)
    /\ Content(cfg, text'[Len(text')]) # <<>>
    /\ ~IndentedComment(cfg, text'[Len(text')])
    => LET line == text'[Len(text')]
           o == OpenOption(heap, rd.doc)
       IN  /\ TakenAsContinuation(line) <=> Indent(line) > Indent(heap[o].lines[1])
           /\ TakenAsContinuation(line) /\ LastBlock(heap, heap[o].container) = o =>
                 /\ heap'[o].lines = Append(heap[o].lines, line)
                 /\ heap'[o].values = Append(heap[o].values, Strip(line))

\* C30: while a section and an option are open, a line with content that is
\* not a comment is a continuation of the open option exactly when its first
\* non-space column is greater than the indentation of the line on which the
\* option's value began, whatever lines came in between; a continuation's
\* text is appended to the option's lines and its trimmed content to the
\* option's value fragments.
C30_ContinuationRule == [][ContinuationRule]_vars

----------------------------------------------------------------------------
(* Properties of the key setter *)

\* the value the getter returns for Option o of h, "<raises>" when it raises
ValueOrRaises(h, o) ==
    IF OptionJoin(h, o).exc # "" THEN <<"<raises>">>
    ELSE OptionValue(OptionJoin(h, o), o).ret

\* the Document read from p's rendering has, in a Section of the same name,
\* an Option with the raw key `key` and the value v
RenamedAgain(h, o, p, key, v) ==
    \E q \in Options(p) :
        /\ p[q].container # 0
        /\ p[p[q].container].name = h[h[o].container].name
        /\ p[q].name = key
        /\ ValueOrRaises(p, q) = v

\* C31: after option.key = new on a parsed Option the call has not raised,
\* raw_key is new, value is what it was, the Option is updated, and parsing
\* the rendered Document again succeeds and gives an Option with the key new
\* and the same value
C31_KeyRenameKeepsValue ==
    [][ ( /\ last'.op = "Option.key"
          /\ last'.n = 1
          /\ heap[last'.target].container # 0 ) =>
            /\ last'.exc = ""
            /\ heap'[last'.target].name = last'.arg.key
            /\ ValueOrRaises(heap', last'.target) = ValueOrRaises(heap, last'.target)
            /\ ValueOrRaises(heap, last'.target) # <<"<raises>">>
            /\ Updated(heap', last'.target)
            /\ ReadAgain(heap').r.exc = NoExc
            /\ RenamedAgain(heap', last'.target, ReadAgain(heap').h,
                            last'.arg.key, ValueOrRaises(heap, last'.target))
      ]_vars

----------------------------------------------------------------------------
(* Properties of section header lines *)

\* what follows the first "]" of a header line, without the end of the line
HeaderComment(line) ==
    RStrip(SubSeq(line, Min({i \in DOMAIN line : line[i] = "]"}) + 1, Len(line)))

\* the step reads a section header line and makes a Section of it
ReadsHeader ==
    /\ pc = "read"
    /\ pc' = "read"
    /\ Len(text') = Len(text) + 1
    /\ HeaderName(text'[Len(text')]) # NoneV

\* C32: the Section made of a header line has the text between "[" and the
\* first "]" as its name and what follows that "]" as its raw comment, and
\* once the Section is renamed its header is rendered with that comment
C32_SectionHeaderGrammar ==
    [][ ReadsHeader =>
          LET line == text'[Len(text')]
              s == LastBlock(heap', rd.doc)
          IN  /\ IsKind(heap', s, "Section")
              /\ heap'[s].name = HeaderName(line)
              /\ heap'[s].raw_comment = HeaderComment(line)
              /\ SectionHead(SectionSetName(heap', s, <<"n">>), s)
                    = <<"[", "n", "]">> \o HeaderComment(line) \o NL
      ]_vars

----------------------------------------------------------------------------
(* Properties of inline comments *)

\* where the inline comment of the line starts (Python index), maxsize when
\* it has none
InlineStart(cf, line) ==
    InlineScan(line, {<<p, -1>> : p \in cf.inline_comment_prefixes}, maxsize)

\* the line has content and, after it, an inline comment
HasInlineComment(cf, line) ==
    /\ InlineStart(cf, line) # maxsize
    /\ ~IsFullLineComment(line, cf)
    /\ Strip(SubSeq(line, 1, InlineStart(cf, line))) # <<>>

\* the inline comment of the line, without the end of the line
InlineComment(cf, line) ==
    RStrip(SubSeq(line, InlineStart(cf, line) + 1, Len(line)))

\* what the line has between its first delimiter and its inline comment; None
\* when it has a key only
DefinedValue(cf, line) ==
    LET ds == {i \in 1..InlineStart(cf, line) : <<line[i]>> \in cf.delimiters}
    IN  IF ds = {} THEN NoneV
        ELSE Strip(SubSeq(line, Min(ds) + 1, InlineStart(cf, line)))

\* the heap when the input ends after this step
AtEnd == ReadEnd(heap', rd', cfg).h

\* one step of the parser on a line with an inline comment: on the line that
\* defines an Option the comment is not in the value, on a continuation line
\* it is; the Option keeps the line as it is and renders it
InlineAsymmetry ==
    /\ pc = "read"
    /\ pc' = "read"
    /\ text' # text
    /\ HasInlineComment(cfg, text'[Len(text')])
    => LET line == text'[Len(text')]
       IN  /\ /\ Len(heap') = Len(heap) + 1
              /\ heap'[Len(heap')].kind = "Option"
              => /\ heap'[Len(heap')].lines = <<line>>
                 /\ ValueOrRaises(heap', Len(heap')) = DefinedValue(cfg, line)
                 /\ Str(heap', Len(heap')) = line
           /\ Continues(rd, line) =>
                 LET o == OpenOption(heap, rd.doc)
                 IN  /\ \E i \in DOMAIN AtEnd[o].lines : AtEnd[o].lines[i] = line
                     /\ ValueOrRaises(AtEnd, o) # <<"<raises>">>
                     /\ EndsWith(ValueOrRaises(AtEnd, o), Strip(line))
                     /\ Str(AtEnd, o) = Concat(AtEnd[o].lines)

\* C33: with inline-comment prefixes configured, an inline comment on the
\* line that defines an option is not part of the option's value, while an
\* inline comment on a continuation line is; in both cases the Option keeps
\* the raw line, comment included, and renders it as in the input
C33_InlineCommentAsymmetry == [][InlineAsymmetry]_vars

----------------------------------------------------------------------------
(* Properties of blank lines inside a value *)

\* a blank line was read after the last line of Option o: a Space after o in
\* its Section holds one
AfterBlank(h, o) ==
    LET st == h[h[o].container].structure
    IN  \E i \in DOMAIN st :
          /\ i > Max(OptionPositions(h, h[o].container))
          /\ h[st[i]].kind = "Space"
          /\ \E j \in DOMAIN h[st[i]].lines : Strip(h[st[i]].lines[j]) = <<>>

\* the step made a Section or an Option of the line, raised for a duplicate,
\* or recorded the line as malformed
Classified(line) ==
    \/ pc' = "raised"
    \/ /\ Len(heap') = Len(heap) + 1
       /\ heap'[Len(heap')].kind \in {"Section", "Option"}
       /\ heap'[Len(heap')].lines = <<line>>
    \/ rd'.e = Append(rd.e, <<Len(text'), line>>)

\* the Option o of heap has, when the input ends after the step, its lines,
\* then the blank lines, then the line, and all of them are in its value
ContinuedOverBlank(o, line) ==
    LET n == Len(heap[o].lines)
        ls == AtEnd[o].lines
    IN  /\ pc' = "read"
        /\ Len(ls) >= n + 2
        /\ SubSeq(ls, 1, n) = heap[o].lines
        /\ Strip(ls[n + 1]) = <<>>
        /\ ls[Len(ls)] = line
        /\ ValueOrRaises(AtEnd, o) \notin {NoneV, <<"<raises>">>}
        /\ EndsWith(ValueOrRaises(AtEnd, o), Strip(line))
        /\ Contains(ValueOrRaises(AtEnd, o), NL \o NL)

\* one step of the parser on a line with content, not a comment, indented
\* deeper than the line of the open option, after a blank line
AfterBlankLine ==
    /\ pc = "read"
    /\ text' # text
    /\ IsOpen(rd)
    /\ rd.e = <<>>
    /\ AfterBlank(heap, OpenOption(heap, rd.doc))
    /\ Content(cfg, text'[Len(text')]) # <<>>
    /\ ~IndentedComment(cfg, text'[Len(text')])
    /\ Indent(text'[Len(text')]) > Indent(heap[OpenOption(heap, rd.doc)].lines[1])
    => LET line == text'[Len(text')]
           o == OpenOption(heap, rd.doc)
       IN  IF cfg.empty_lines_in_values
           THEN ContinuedOverBlank(o, line)
           ELSE /\ heap'[o] = heap[o]
                /\ ~TakenAsContinuation(line)
                /\ Classified(line)

\* C34: without empty_lines_in_values a blank line ends the open value: a
\* deeper-indented line after it is not added to the option, it is a section
\* header, an option line or a malformed line; with empty_lines_in_values
\* such a line is a continuation of the same option, and the blank lines in
\* between are part of the option's value
C34_BlankLinesAndOpenValues == [][AfterBlankLine]_vars

----------------------------------------------------------------------------
(* Properties of comments inside a value *)

\* the Option o is followed, in its Section, by one Comment of unindented
\* comment lines and by nothing else
CommentAfter(h, o) ==
    LET st == h[h[o].container].structure
    IN  /\ Len(st) >= 2
        /\ st[Len(st) - 1] = o
        /\ h[st[Len(st)]].kind = "Comment"
        /\ h[st[Len(st)]].lines # <<>>
        /\ \A i \in DOMAIN h[st[Len(st)]].lines :
              Indent(h[st[Len(st)]].lines[i]) = 0

\* one step of the parser on a line with content, indented deeper than the
\* line of the open option, when unindented comment lines follow the option
CommentInValue ==
    /\ pc = "read"
    /\ text' # text
    /\ IsOpen(rd)
    /\ rd.e = <<>>
    /\ CommentAfter(heap, OpenOption(heap, rd.doc))
    /\ Content(cfg, text'[Len(text')]) # <<>>
    /\ ~IndentedComment(cfg, text'[Len(text')])
    /\ Indent(text'[Len(text')]) > Indent(heap[OpenOption(heap, rd.doc)].lines[1])
    => LET line == text'[Len(text')]
           o == OpenOption(heap, rd.doc)
           c == LastBlock(heap, heap[o].container)
       IN  /\ pc' = "read"
           /\ rd'.e = <<>>
           /\ heap'[o].lines = (heap[o].lines \o heap[c].lines) \o <<line>>
           /\ LastBlock(heap', heap[o].container) = o
           /\ Str(heap', rd.doc) = Str(heap, rd.doc) \o line

\* C35: an unindented full-line comment between the lines of a multi-line
\* value does not end the value: a deeper-indented line that follows is a
\* continuation of the same option, the comment lines become lines of that
\* option at their position, no Comment sibling is left, and the rendering
\* is the input
C35_CommentInsideValue == [][CommentInValue]_vars

----------------------------------------------------------------------------
(* Properties of the Comment and Space blocks the parser makes *)

\* the containers of a heap
Containers(h) == Documents(h) \cup Sections(h)

\* no two neighbours in the child list of c are both Comments or both Spaces
NoTwins(h, c) ==
    \A i \in 1..(Len(h[c].structure) - 1) :
        ~ /\ h[h[c].structure[i]].kind \in {"Comment", "Space"}
          /\ h[h[c].structure[i]].kind = h[h[c].structure[i + 1]].kind

\* the block that took the last line: the last block of the Document d, or of
\* its last Section
LastLeaf(h, d) ==
    IF IsKind(h, LastBlock(h, d), "Section") /\ h[LastBlock(h, d)].structure # <<>>
    THEN LastBlock(h, LastBlock(h, d))
    ELSE LastBlock(h, d)

\* both lines are full-line comments, or both are blank
SameLeafKind(cf, a, b) ==
    \/ IsFullLineComment(a, cf) /\ IsFullLineComment(b, cf)
    \/ Strip(a) = <<>> /\ Strip(b) = <<>>

\* one step of the parser: a comment line after a comment line, or a blank
\* line after a blank line, makes no block and is put after that line; and
\* when the parse has succeeded no container has twins
MergesLines ==
    /\ ( /\ pc = "read"
         /\ text' # text
         /\ text # <<>>
         /\ SameLeafKind(cfg, text[Len(text)], text'[Len(text')]) ) =>
           LET b == LastLeaf(heap', rd.doc)
               n == Len(heap'[b].lines)
           IN  /\ pc' = "read"
               /\ Len(heap') = Len(heap)
               /\ b = LastLeaf(heap, rd.doc)
               /\ heap'[b].kind \in {"Comment", "Space"}
               /\ n >= 2
               /\ heap'[b].lines[n - 1] = text[Len(text)]
               /\ heap'[b].lines[n] = text'[Len(text')]
    /\ pc' = "done" => \A c \in Containers(heap') : NoTwins(heap', c)

ContainerLen(h, c) == Len(h[c].structure)

\* the positions of c's child list whose block renders some text
Rendering(h, c) == {i \in DOMAIN h[c].structure : Str(h, h[c].structure[i]) # <<>>}

\* C37: after a successful parse every block of the tree holds at least one
\* line and is not reported as updated; in particular no empty Space is left
\* where the lines of a Space were moved into the Option before it, and the
\* number of blocks of a Section counts blocks that render text only
C37_NoEmptyNodes ==
    pc = "done" =>
        /\ \A i \in DOMAIN Flat(heap, rd.doc) :
              /\ heap[Flat(heap, rd.doc)[i]].lines # <<>>
              /\ ~Updated(heap, Flat(heap, rd.doc)[i])
        /\ \A s \in Sections(heap) :
              ContainerLen(heap, s) = Cardinality(Rendering(heap, s))

----------------------------------------------------------------------------
(* Properties of the removal of an Option *)

\* the list without the object b
Without(st, b) == SelectSeq(st, LAMBDA x : x # b)

\* the call on Section s removed the Option that s[k] returns in heap, and
\* nothing else
RemovedLookedUp(s, k) ==
    /\ last'.exc = ""
    /\ heap'[s].structure = Without(heap[s].structure, SectionGetItem(heap, s, k).ret[1])
    /\ Len(heap'[s].structure) = Len(heap[s].structure) - 1

\* one call of del section[k], or of document.remove_option(name, k) on an
\* existing section, against section[k] before the call
DeletesAsLooksUp ==
    /\ last'.op = "Section.__delitem__" /\ last'.n = last.n + 1 =>
          LET s == last'.target
              g == SectionGetItem(heap, s, last'.arg.key)
          IN  /\ g.exc = "" => RemovedLookedUp(s, last'.arg.key)
              /\ g.exc = "KeyError" => last'.exc = "KeyError" /\ heap' = heap
              /\ g.exc # "" => last'.exc # ""
    /\ ( /\ last'.op = "Document.remove_option" /\ last'.n = last.n + 1
         /\ HasSection(heap, last'.target, last'.arg.name) ) =>
          LET s == GetSection(heap, last'.target, last'.arg.name)
              g == SectionGetItem(heap, s, last'.arg.key)
          IN  /\ g.exc = "" =>
                    /\ RemovedLookedUp(s, last'.arg.key)
                    /\ RemoveOptionExisted(heap, last'.target, last'.arg.name,
                                           last'.arg.key)
              /\ g.exc = "KeyError" =>
                    /\ last'.exc = "" /\ heap' = heap
                    /\ ~RemoveOptionExisted(heap, last'.target, last'.arg.name,
                                            last'.arg.key)

\* C38: for every spelling k of a key, del section[k] succeeds exactly when
\* section[k] succeeds and removes the Option section[k] returns, the other
\* blocks staying in order; it raises KeyError, the section unchanged,
\* exactly when section[k] raises KeyError; Document.remove_option(name, k)
\* returns true and removes that Option when it exists and returns false
\* otherwise
C38_DeletionAgreesWithLookup == [][DeletesAsLooksUp]_vars

====
